---- MODULE Spec2Model ----
(***************************************************************************)
(* Model of THREE.OgreMaxLoader (src/OgreMaxLoader.js, version 1.1).       *)
(*                                                                         *)
(* Part I   - the dependency orchestration of OgreMaxLoader.load: the      *)
(*            per-instance #internalManager counters, #busy, #objectRoot,  *)
(*            the nested loader instances created by #parseEntity and      *)
(*            #parseMesh, the DotMaterialLoader loads of #parseSubEntities *)
(*            and the callbacks delivered to the caller.                   *)
(* Part II  - DotMaterialLoader.parse, the recursive-descent parser of     *)
(*            the material grammar.                                        *)
(* Part III - OgreMaxLoader.parse and the mesh parsers below it.           *)
(***************************************************************************)
EXTENDS Integers, Sequences, FiniteSets, TLC

\* ------------------------------------------------------------------------
\* Bounds of the model
\* ------------------------------------------------------------------------
\* top-level load() calls accepted on the one user-facing instance
MaxLoads == 2
\* nested loads (mesh, skeleton, material) created over the whole run
MaxDeps == 4
\* <entity> elements of one scene document
MaxEntities == 2

\* ------------------------------------------------------------------------
\* Part I - state
\* ------------------------------------------------------------------------
VARIABLES
    busy,       \* #busy of every loader instance (0 = the caller's instance)
    total,      \* itemsTotal of every instance's #internalManager
    loaded,     \* itemsLoaded of every instance's #internalManager
    oroot,      \* #objectRoot of every instance
    dep,        \* the nested loads: kind, parent instance, fetch state
    gen,        \* number of load() calls accepted on instance 0
    fetch0,     \* the load() calls of instance 0 whose root fetch is in flight
    usr,        \* what the caller of load() number g has observed
    att,        \* scene objects: the nested meshes added under their nodes
    mgr,        \* calls the loader made on the caller's LoadingManager
    rejects     \* the error thrown by load() calls made while #busy, if any

VARIABLES
    mtext,      \* Part II: the material text given to DotMaterialLoader.parse
    mres        \* Part II: what parse did with it

VARIABLES
    xdoc,       \* Part III: the XML document given to OgreMaxLoader.parse
    xurl,       \* Part III: #url of the instance whose parse is called
    xres        \* Part III: what parse did with it

VARIABLES
    subNode,    \* Part IV: the <subentity> elements of a <subentities> block
    matList,    \* Part IV: the materials its material file gave
    subRes      \* Part IV: what the material callback of the block did

VARIABLES
    texturePath,    \* Part V: #texturePath of an OgreMaxLoader and of a
                    \* DotMaterialLoader
    assigned,       \* Part V: the last assignment to a texturePath property
    thrown          \* Part V: what that assignment threw

loadVars == <<busy, total, loaded, oroot, dep, gen, fetch0, usr, att, mgr, rejects>>
matVars == <<mtext, mres>>
xmlVars == <<xdoc, xurl, xres>>
subVars == <<subNode, matList, subRes>>
pathVars == <<texturePath, assigned, thrown>>
vars == <<busy, total, loaded, oroot, dep, gen, fetch0, usr, att, mgr, rejects,
          mtext, mres, xdoc, xurl, xres, subNode, matList, subRes,
          texturePath, assigned, thrown>>

Inst == 0 .. MaxDeps
Deps == 1 .. MaxDeps
Gens == 1 .. MaxLoads

Min(a, b) == IF a < b THEN a ELSE b

\* counters of callbacks are kept up to 2: "never", "once", "more than once"
Bump(n) == Min(n + 1, 2)

\* #objectRoot = {} (line 77, and line 144 at every load)
\* materials: 0, or the <entity> (by its position in the scene document)
\* whose <subentities> block gave the array stored in #objectRoot[baseName]
EmptyRoot == [scene |-> 0, mesh |-> "none", skeleton |-> FALSE,
              skeletonFile |-> FALSE, materials |-> 0]

\* ent: the position in the scene document of the <entity> a nested mesh or
\* material load was started for, 0 for a skeleton
FreeDep == [kind |-> "free", parent |-> 0, own |-> 0, obj |-> 0, ent |-> 0,
            fetching |-> FALSE, okN |-> 0, errN |-> 0]

\* ents: the entities of the scene document the load was given; mats: the
\* materials #finalize bound to the meshes of the scene it delivered;
\* premature: an aggregate completion of the load fired while one of its
\* registered dependencies had reported nothing
FreshUsr == [onLoad |-> 0, onError |-> 0, promise |-> "none", early |-> FALSE,
             code |-> "none", failed |-> FALSE, dirty |-> FALSE,
             fcode |-> "none", ents |-> <<>>, mats |-> 0, premature |-> FALSE]

\* The orchestration state as one record, so that a callback cascade (a fetch
\* callback running #handleFileLoaded, itemEnd, #finalize, the parent's
\* callback, the parent's itemEnd ...) is computed as one synchronous step.
St == [busy |-> busy, total |-> total, loaded |-> loaded, oroot |-> oroot,
       dep |-> dep, gen |-> gen, fetch0 |-> fetch0, usr |-> usr, att |-> att,
       mgr |-> mgr]

Commit(s) ==
    /\ busy' = s.busy
    /\ total' = s.total
    /\ loaded' = s.loaded
    /\ oroot' = s.oroot
    /\ dep' = s.dep
    /\ gen' = s.gen
    /\ fetch0' = s.fetch0
    /\ usr' = s.usr
    /\ att' = s.att
    /\ mgr' = s.mgr

\* ------------------------------------------------------------------------
\* Part I - the callbacks of one load (OgreMaxLoader.load, lines 123-201)
\* ------------------------------------------------------------------------
\* the load() call whose closures the handlers of instance i hold: load()
\* re-assigns #internalManager.onLoad / onError at every call (lines 163-179);
\* a nested instance is created for one load only (lines 359, 990)
CurGen(s, i) == IF i = 0 THEN s.gen ELSE 1

\* a dependency registered by load g that has not delivered its result
Outstanding(s, g) ==
    \E d \in Deps : s.dep[d].kind # "free" /\ s.dep[d].own = g /\ s.dep[d].okN = 0

\* a dependency that instance i registered for load o and that has reported
\* neither its result nor its failure
Pending(s, i, o) ==
    \E d \in Deps :
        /\ s.dep[d].kind # "free"
        /\ s.dep[d].parent = i
        /\ s.dep[d].own = o
        /\ s.dep[d].okN = 0
        /\ s.dep[d].errN = 0

\* the caller's onLoad(obj) followed by resolve(obj) (lines 264-265, 281-294,
\* 300-301): a promise settles once
UsrOnLoad(s, g) ==
    [s EXCEPT !.usr[g].onLoad = Bump(@),
              !.usr[g].early = @ \/ Outstanding(s, g),
              !.usr[g].mats = IF s.usr[g].onLoad = 0 /\ s.oroot[0].scene # 0
                              THEN s.oroot[0].materials ELSE @,
              !.usr[g].promise = IF @ = "pending" THEN "resolved" ELSE @]

\* the caller's onError(err) followed by reject(err) (lines 140-141)
UsrOnError(s, g, code) ==
    [s EXCEPT !.usr[g].onError = Bump(@),
              !.usr[g].code = IF @ = "none" THEN code ELSE @,
              !.usr[g].promise = IF @ = "pending" THEN "rejected" ELSE @]

\* this.manager.itemEnd(url) on the caller's LoadingManager (lines 136, 263,
\* 280, 299); kept for the caller's instance
MgrEnd(s, i, g) ==
    IF i = 0 THEN [s EXCEPT !.mgr[g].end = Bump(@)] ELSE s

\* #internalManager.itemStart(url): LoadingManager counts the item
ItemStart(s, i) == [s EXCEPT !.total[i] = @ + 1]

\* fail() wraps every error that is no OgreMaxError into E_RUNTIME (132-134)
ErrCode(code) ==
    IF code \in {"E_IO", "E_XML", "E_FORMAT", "E_RANGE", "E_RUNTIME"}
    THEN code ELSE "E_RUNTIME"

\* #finalize (lines 269-278): with a linked skeleton the mesh branch writes
\* mesh.geometry.bones and calls mesh.bind; a THREE.Group has no geometry and
\* a THREE.Line has no bind, so both throw a TypeError
FinalizeThrows(s, i) ==
    /\ s.oroot[i].scene = 0
    /\ s.oroot[i].mesh \in {"group", "line"}
    /\ s.oroot[i].skeletonFile

\* #finalize delivers an object (scene, mesh or skeleton branch); with an
\* empty #objectRoot it returns without calling anything (line 304)
FinalizeDelivers(s, i) ==
    \/ s.oroot[i].scene # 0
    \/ s.oroot[i].mesh # "none"
    \/ s.oroot[i].skeleton

RECURSIVE ItemEnd(_, _), InternalOnLoad(_, _), Fail(_, _, _, _),
          OnLoadCb(_, _, _), OnErrorCb(_, _, _, _)

\* #internalManager.itemEnd(url): LoadingManager counts the item and calls
\* onLoad when itemsLoaded === itemsTotal
ItemEnd(s, i) ==
    LET s1 == [s EXCEPT !.loaded[i] = @ + 1]
    IN  IF s1.loaded[i] = s1.total[i] THEN InternalOnLoad(s1, i) ELSE s1

\* #internalManager.onLoad (lines 169-179) with #finalize (lines 243-304)
InternalOnLoad(s, i) ==
    LET g  == CurGen(s, i)
        o  == IF i = 0 THEN g ELSE s.dep[i].own
        s1 == [s EXCEPT !.busy[i] = FALSE,
                        !.usr[o].premature = @ \/ Pending(s, i, o)]
    IN  IF FinalizeThrows(s1, i) THEN Fail(s1, i, g, "TypeError")
        ELSE IF FinalizeDelivers(s1, i) THEN OnLoadCb(MgrEnd(s1, i, g), i, g)
        ELSE s1

\* fail(err) of load g on instance i (lines 131-142)
Fail(s, i, g, code) ==
    LET s1 == ItemEnd(MgrEnd(s, i, g), i)
        s2 == [s1 EXCEPT !.busy[i] = FALSE]
    IN  OnErrorCb(s2, i, g, ErrCode(code))

\* the onLoad callback given to load(): the caller's for instance 0; for a
\* nested mesh the closure of #parseEntity (lines 1001-1008), for a nested
\* skeleton the closure of #parseMesh (lines 365-382)
OnLoadCb(s, i, g) ==
    IF i = 0 THEN UsrOnLoad(s, g)
    ELSE LET p  == s.dep[i].parent
             s1 == [s EXCEPT !.dep[i].okN = Bump(@)]
         IN  IF s.dep[i].kind = "mesh"
             THEN ItemEnd([s1 EXCEPT !.att[s.dep[i].obj] = @ \cup {i}], p)
             ELSE ItemEnd([s1 EXCEPT !.oroot[p].skeletonFile = TRUE], p)

\* the onError callback given to load(): the caller's for instance 0; for a
\* nested load #internalManager.itemError(url) of the parent (lines 384,
\* 1010), which runs the parent's #internalManager.onError (lines 163-167)
OnErrorCb(s, i, g, code) ==
    IF i = 0 THEN UsrOnError(s, g, code)
    ELSE LET p == s.dep[i].parent
         IN  Fail([s EXCEPT !.dep[i].errN = Bump(@)], p, CurGen(s, p), "E_RUNTIME")

\* #internalManager.itemError(url) of instance p, called by a failed
\* dependency (lines 384, 1010, 1112)
ItemError(s, p) == Fail(s, p, CurGen(s, p), "E_RUNTIME")

\* ------------------------------------------------------------------------
\* Part I - documents and the registration of dependencies
\* ------------------------------------------------------------------------
\* What a fetched XML document makes #handleFileLoaded do. A scene lists the
\* <entity> elements met before the parse ends or throws (each with or
\* without <subentities>); "bad" says that a later <node> throws (a malformed
\* rotation, #attrQuaternion lines 1441, 1477). A mesh is one SkinnedMesh, one
\* Line or a Group of several submeshes (lines 388-399), with or without a
\* <skeletonlink>. An "error" document throws before it registers anything.
EntLists == UNION {[1 .. n -> BOOLEAN] : n \in 0 .. MaxEntities}

SceneDocs == [root : {"scene"}, ents : EntLists, bad : BOOLEAN]

MeshDocs == [root : {"mesh"}, shape : {"single", "group", "line"}, skel : BOOLEAN]

SkelDocs == {[root |-> "skeleton"]}

ErrorDocs == [root : {"error"}, code : {"E_XML", "E_RANGE"}]

\* the documents load(url) may be given by the caller
TopDocs == SceneDocs \cup MeshDocs \cup SkelDocs \cup ErrorDocs

\* the documents behind a nested load: #parseEntity loads `${meshFile}.xml`,
\* #parseMesh loads the linked skeleton
DocsFor(kind) ==
    IF kind = "mesh" THEN MeshDocs \cup ErrorDocs ELSE SkelDocs \cup ErrorDocs

RECURSIVE SubCount(_)
SubCount(ents) ==
    IF ents = <<>> THEN 0
    ELSE (IF ents[1] THEN 1 ELSE 0) + SubCount(Tail(ents))

\* nested loads a document creates
NeedDeps(doc) ==
    CASE doc.root = "scene" -> Len(doc.ents) + SubCount(doc.ents)
      [] doc.root = "mesh"  -> IF doc.skel THEN 1 ELSE 0
      [] OTHER              -> 0

FreeIds(s) == {d \in Deps : s.dep[d].kind = "free"}

NextFree(s) == CHOOSE d \in FreeIds(s) : \A e \in FreeIds(s) : d <= e

\* new OgreMaxLoader(this.manager) followed by #internalManager.itemStart(u)
\* of the parent and intLoader.load(u, ...): lines 359-363 (skeleton) and
\* 990-999 (mesh). load() on the fresh instance sets #busy, counts its own
\* root item and starts the fetch (lines 128, 186, 188).
StartNested(s, i, g, kind, o, k) ==
    LET d  == NextFree(s)
        s1 == ItemStart(s, i)
    IN  [s1 EXCEPT !.dep[d] = [kind |-> kind, parent |-> i, own |-> o, obj |-> g,
                               ent |-> k,
                               fetching |-> TRUE, okN |-> 0, errN |-> 0],
                   !.busy[d] = TRUE,
                   !.oroot[d] = EmptyRoot,
                   !.total[d] = @ + 1]

\* #parseSubEntities (lines 1068-1114): #internalManager.itemStart(matURL)
\* and DotMaterialLoader.load
StartMaterial(s, i, o, k) ==
    LET d  == NextFree(s)
        s1 == ItemStart(s, i)
    IN  [s1 EXCEPT !.dep[d] = [kind |-> "mat", parent |-> i, own |-> o, obj |-> 0,
                               ent |-> k,
                               fetching |-> TRUE, okN |-> 0, errN |-> 0]]

\* #parseEntity (lines 981-1012): the material load of <subentities> first,
\* then the nested mesh load
ParseEntity(s, i, g, o, hasSub, k) ==
    StartNested(IF hasSub THEN StartMaterial(s, i, o, k) ELSE s, i, g, "mesh", o, k)

RECURSIVE ParseEntities(_, _, _, _, _, _)
\* the entities of the document from position k on, in document order
ParseEntities(s, i, g, o, ents, k) ==
    IF k > Len(ents) THEN s
    ELSE ParseEntities(ParseEntity(s, i, g, o, ents[k], k), i, g, o, ents, k + 1)

\* the load that owns what instance i registers: the load() call g for the
\* caller's instance, the owner of the nested load otherwise
Owner(s, i, g) == IF i = 0 THEN g ELSE s.dep[i].own

\* the fetch callback of load g on instance i (lines 190-196):
\* #handleFileLoaded (lines 315-328) inside try / catch -> fail(err)
HandleFileLoaded(s, i, g, doc) ==
    LET o == Owner(s, i, g)
    IN  CASE doc.root = "error" -> Fail(s, i, g, doc.code)
          [] doc.root = "scene" ->
               LET s1 == ParseEntities(s, i, g, o, doc.ents, 1)
               IN  IF doc.bad THEN Fail(s1, i, g, "E_FORMAT")
                   ELSE ItemEnd([s1 EXCEPT !.oroot[i].scene = g], i)
          [] doc.root = "mesh" ->
               LET s1 == IF doc.skel THEN StartNested(s, i, g, "skel", o, 0) ELSE s
               IN  ItemEnd([s1 EXCEPT !.oroot[i].mesh = doc.shape], i)
          [] OTHER ->
               ItemEnd([s EXCEPT !.oroot[i].skeleton = TRUE], i)

\* a failure in the tree of load o, for the statements about failures: its
\* first error code, and whether a fetch failed or a document did not parse
NoteFailure(s, o, code, isDirty) ==
    [s EXCEPT !.usr[o].failed = TRUE,
              !.usr[o].dirty = @ \/ isDirty,
              !.usr[o].fcode = IF @ = "none" THEN code ELSE @]

\* ------------------------------------------------------------------------
\* Part I - actions
\* ------------------------------------------------------------------------
NoRes == [done |-> FALSE]

MatIdle == mtext = <<>> /\ mres = NoRes

XmlIdle == xdoc = [root |-> "none"] /\ xurl = "" /\ xres = NoRes

LoadInit ==
    /\ busy = [i \in Inst |-> FALSE]
    /\ total = [i \in Inst |-> 0]
    /\ loaded = [i \in Inst |-> 0]
    /\ oroot = [i \in Inst |-> EmptyRoot]
    /\ dep = [d \in Deps |-> FreeDep]
    /\ gen = 0
    /\ fetch0 = {}
    /\ usr = [g \in Gens |-> FreshUsr]
    /\ att = [g \in Gens |-> {}]
    /\ mgr = [g \in Gens |-> [start |-> 0, end |-> 0]]
    /\ rejects = "none"

\* an assignment that throws nothing
NoThrow == [name |-> "none", code |-> "none"]

\* no <subentities> block is being bound
SubIdle == subNode = <<>> /\ matList = <<>> /\ subRes = NoRes

\* #texturePath = '' of both loaders (lines 80, 1616)
PathIdle ==
    /\ texturePath = [l \in {"OgreMaxLoader", "DotMaterialLoader"} |-> ""]
    /\ assigned = [loader |-> "none", value |-> [type |-> "undefined", s |-> ""]]
    /\ thrown = NoThrow

Init == LoadInit /\ MatIdle /\ XmlIdle /\ SubIdle /\ PathIdle

\* the busy guard of load() (line 124)
LoadGuard(s) == s.busy[0]

\* load() accepted (lines 128-188): #busy, a fresh #objectRoot, the handlers
\* of this call, itemStart on both managers and the root fetch
AcceptLoad(s) ==
    LET g == s.gen + 1
    IN  [ItemStart(s, 0) EXCEPT !.gen = g,
                                !.busy[0] = TRUE,
                                !.oroot[0] = EmptyRoot,
                                !.mgr[g].start = Bump(@),
                                !.fetch0 = @ \cup {g},
                                !.usr[g].promise = "pending"]

\* the caller calls load(url) on its instance (lines 123-201)
Load ==
    /\ IF LoadGuard(St)
       THEN /\ rejects' = "E_RUNTIME"
            /\ UNCHANGED <<busy, total, loaded, oroot, dep, gen, fetch0, usr, att, mgr>>
       ELSE /\ gen < MaxLoads
            /\ Commit(AcceptLoad(St))
            /\ UNCHANGED rejects
    /\ UNCHANGED <<matVars, xmlVars, subVars, pathVars>>

\* the root fetch of load g returns a document (lines 190-196)
RootReturns ==
    /\ \E g \in fetch0 : \E doc \in TopDocs :
         /\ NeedDeps(doc) <= Cardinality(FreeIds(St))
         /\ LET s0 == [St EXCEPT !.fetch0 = @ \ {g},
                                  !.usr[g].ents = IF doc.root = "scene"
                                                  THEN doc.ents ELSE @]
                s1 == IF doc.root = "error" \/ (doc.root = "scene" /\ doc.bad)
                      THEN NoteFailure(s0, g,
                                       IF doc.root = "error" THEN doc.code ELSE "E_FORMAT",
                                       TRUE)
                      ELSE s0
            IN  Commit(HandleFileLoaded(s1, 0, g, doc))
    /\ UNCHANGED <<rejects, matVars, xmlVars, subVars, pathVars>>

\* the root fetch of load g fails (line 198)
RootFails ==
    /\ \E g \in fetch0 :
         Commit(Fail(NoteFailure([St EXCEPT !.fetch0 = @ \ {g}], g, "E_IO", TRUE),
                     0, g, "E_IO"))
    /\ UNCHANGED <<rejects, matVars, xmlVars, subVars, pathVars>>

Fetching(kinds) == {d \in Deps : dep[d].kind \in kinds /\ dep[d].fetching}

\* the fetch of a nested mesh or skeleton load returns a document
DepReturns ==
    /\ \E d \in Fetching({"mesh", "skel"}) : \E doc \in DocsFor(dep[d].kind) :
         /\ NeedDeps(doc) <= Cardinality(FreeIds(St))
         /\ LET s0 == [St EXCEPT !.dep[d].fetching = FALSE]
                s1 == IF doc.root = "error"
                      THEN NoteFailure(s0, dep[d].own, doc.code, TRUE)
                      ELSE s0
            IN  Commit(HandleFileLoaded(s1, d, 1, doc))
    /\ UNCHANGED <<rejects, matVars, xmlVars, subVars, pathVars>>

\* the fetch of a nested mesh or skeleton load fails
DepFails ==
    /\ \E d \in Fetching({"mesh", "skel"}) :
         Commit(Fail(NoteFailure([St EXCEPT !.dep[d].fetching = FALSE],
                                 dep[d].own, "E_IO", TRUE),
                     d, 1, "E_IO"))
    /\ UNCHANGED <<rejects, matVars, xmlVars, subVars, pathVars>>

\* DotMaterialLoader.load (lines 1658-1693) of #parseSubEntities: the text
\* arrives; "ok": it parses and the callback of lines 1079-1110 stores the
\* material array and ends the item; "parse": DotMaterialLoader.parse throws;
\* "nomap": a material bound by a <subentity> has no texture, so the callback
\* throws at mat.map.flipY (line 1096) inside the try of line 1679. Both
\* errors reach onError, which is #internalManager.itemError (line 1112).
MatReturns ==
    /\ \E d \in Fetching({"mat"}) : \E how \in {"ok", "parse", "nomap"} :
         LET p  == dep[d].parent
             s0 == [St EXCEPT !.dep[d].fetching = FALSE]
         IN  IF how = "ok"
             THEN Commit(ItemEnd([s0 EXCEPT !.dep[d].okN = Bump(@),
                                            !.oroot[p].materials = dep[d].ent], p))
             ELSE Commit(ItemError(
                    NoteFailure([s0 EXCEPT !.dep[d].errN = Bump(@)], dep[d].own,
                                "E_FORMAT", how = "parse"), p))
    /\ UNCHANGED <<rejects, matVars, xmlVars, subVars, pathVars>>

\* the fetch of the material file fails (line 1690)
MatFails ==
    /\ \E d \in Fetching({"mat"}) :
         Commit(ItemError(
            NoteFailure([St EXCEPT !.dep[d].fetching = FALSE, !.dep[d].errN = Bump(@)],
                        dep[d].own, "E_IO", TRUE), dep[d].parent))
    /\ UNCHANGED <<rejects, matVars, xmlVars, subVars, pathVars>>

Next ==
    \/ Load
    \/ RootReturns
    \/ RootFails
    \/ DepReturns
    \/ DepFails
    \/ MatReturns
    \/ MatFails

Spec == Init /\ [][Next]_vars

\* ------------------------------------------------------------------------
\* Part I - statements about load()
\* ------------------------------------------------------------------------
Started(g) == g \in Gens /\ g <= gen

\* no fetch is in flight any more
Quiescent ==
    /\ fetch0 = {}
    /\ \A d \in Deps : ~dep[d].fetching

\* load g has delivered neither onLoad nor onError
Unsettled(g) == Started(g) /\ usr[g].onLoad = 0 /\ usr[g].onError = 0

InFlight == \E g \in Gens : Unsettled(g)

\* C1: for a load in which every fetch succeeds and every document parses,
\* onLoad is invoked exactly once, and only after every dependency that the
\* load registered has completed, whatever the order of the completions.
C1_OnLoadOnceAfterAllDeps ==
    \A g \in Gens :
        (Started(g) /\ ~usr[g].dirty) =>
            /\ usr[g].onLoad <= 1
            /\ ~usr[g].early
            /\ (Quiescent => usr[g].onLoad = 1)

\* C2: when the load of a document of the dependency tree fails, the load
\* never calls onLoad and never resolves its promise; once nothing is in
\* flight it has called onError and rejected the promise.
C2_FailureNeverDeliversResult ==
    \A g \in Gens :
        (Started(g) /\ usr[g].failed) =>
            /\ usr[g].onLoad = 0
            /\ usr[g].promise # "resolved"
            /\ (Quiescent => usr[g].onError >= 1 /\ usr[g].promise = "rejected")

\* C3: while a load of the instance has not settled, the instance is busy, no
\* further load() is accepted, and a load() call that is rejected throws
\* E_RUNTIME and leaves the busy flag, the pending counters, the pending
\* loads and the result accumulator as they were.
C3_SecondLoadRejected ==
    [][ /\ InFlight => (busy[0] /\ gen' = gen)
        /\ rejects' # rejects =>
              /\ rejects' = "E_RUNTIME"
              /\ UNCHANGED <<busy, total, loaded, oroot, dep, gen, fetch0, usr, att, mgr>>
      ]_vars

\* C17: the aggregate of a load is terminal once it has fired success or
\* failure: no later completion or failure of a pending item invokes onLoad
\* or onError again, so each load invokes at most one of them, at most once,
\* even when several dependencies fail.
C17_AggregateTerminal ==
    \A g \in Gens : Started(g) => usr[g].onLoad + usr[g].onError <= 1

\* C18: every dependency discovered while a document is parsed is
\* registered before the completion of that document is reported, so no
\* aggregate completion of a load fires while a dependency registered for
\* it has reported neither a result nor a failure.
C18_NoCompletionWhilePending ==
    \A g \in Gens : Started(g) => ~usr[g].premature

\* every dependency registered so far belongs to load g
OnlyLoad(g) == \A d \in Deps : dep[d].kind # "free" => dep[d].own = g

\* every entity of the scene of load g has a <subentities> block
AllWithMaterials(g) ==
    /\ usr[g].ents # <<>>
    /\ \A k \in 1 .. Len(usr[g].ents) : usr[g].ents[k]

\* C19: for a scene whose entities each need a mesh file and a material
\* file, and all of whose loads succeed, the graph delivered to onLoad is
\* the same for every order in which the loads complete: every mesh is
\* attached, and the materials bound are those bound when the loads complete
\* in the order of the document (the block of the last entity is stored
\* last).
C19_ResultIndependentOfOrder ==
    \A g \in Gens :
        (/\ Started(g)
         /\ OnlyLoad(g)
         /\ AllWithMaterials(g)
         /\ ~usr[g].failed
         /\ usr[g].onLoad >= 1) =>
            /\ Cardinality(att[g]) = Len(usr[g].ents)
            /\ usr[g].mats = Len(usr[g].ents)

\* a dependency left over from a load before the current one reports in
\* this step
LeftoverReports ==
    \E d \in Deps :
        /\ dep[d].kind # "free"
        /\ dep[d].own < gen
        /\ dep[d].fetching
        /\ ~dep'[d].fetching

\* no root fetch and no dependency of load g is pending
OwnItemsDone(g) ==
    /\ g \notin fetch0
    /\ \A d \in Deps :
          (dep[d].kind # "free" /\ dep[d].own = g) =>
              (~dep[d].fetching /\ (dep[d].okN > 0 \/ dep[d].errN > 0))

\* C20: the pending set and the counter of a load are not carried over to
\* the next load of the instance: a late completion or failure of a
\* dependency left over from an earlier load neither completes nor fails the
\* current load, and the current load delivers its result only once its own
\* items have all completed.
C20_NoCarryOver ==
    [][ /\ (gen \in Gens /\ LeftoverReports) =>
              /\ usr'[gen] = usr[gen]
              /\ busy'[0] = busy[0]
        /\ \A g \in Gens :
              (g > 1 /\ usr[g].onLoad = 0 /\ usr'[g].onLoad > 0) => OwnItemsDone(g)'
      ]_vars

\* C21: when an item of the dependency tree of a load fails, the error given
\* to the caller's onError is that item's error: it has the category of the
\* first failure of the tree (E_IO for a fetch that failed, E_XML, E_FORMAT or
\* E_RANGE for a document that did not parse), at every nesting depth.
C21_ErrorKeepsCategory ==
    \A g \in Gens :
        (Started(g) /\ OnlyLoad(g) /\ usr[g].failed /\ usr[g].onError >= 1) =>
            usr[g].code = usr[g].fcode

\* the current load of the caller's instance was given a mesh document of
\* skinned submeshes (one, or several in a Group) whose linked skeleton has
\* been loaded, and nothing of its tree failed
SkeletonResolved ==
    /\ gen \in Gens
    /\ OnlyLoad(gen)
    /\ ~usr[gen].failed
    /\ oroot[0].scene = 0
    /\ oroot[0].mesh \in {"single", "group"}
    /\ oroot[0].skeletonFile

\* C22: when a mesh document links a skeleton and the skeleton load resolves,
\* the mesh load completes successfully (onLoad once, no onError), for a mesh
\* with one submesh and for a mesh with several submeshes.
C22_SkinnedMeshCompletes ==
    SkeletonResolved => (usr[gen].onLoad = 1 /\ usr[gen].onError = 0)

\* a root fetch leaves the set of the fetches in flight: the step of
\* RootReturns and of RootFails, as far as fetch0 goes
RootFetchEnds == \E g \in fetch0 : fetch0' = fetch0 \ {g}

\* the nested fetches that were issued return or fail: time and again none
\* of them is in flight
DepFetchesEnd == []<>(\A d \in Deps : ~dep[d].fetching)

\* Every fetch that was issued eventually returns or fails: FileLoader calls
\* one of the two callbacks given to it (lines 188-199, 1676-1691). For the
\* root fetch this is weak fairness of the two callbacks, which are enabled
\* exactly while a root fetch is in flight.
FairSpec ==
    /\ Init
    /\ [][Next]_vars
    /\ WF_fetch0(RootFetchEnds)
    /\ DepFetchesEnd

\* load g has called onLoad or onError and settled its promise
Settled(g) ==
    /\ usr[g].onLoad > 0 \/ usr[g].onError > 0
    /\ usr[g].promise \in {"resolved", "rejected"}

\* C26: if every fetch issued during a load eventually returns or fails,
\* every accepted load() call eventually settles (calls onLoad or onError and
\* resolves or rejects its promise), the first load of an instance and every
\* later one, also after a failed load.
C26_EveryLoadSettles ==
    \A g \in Gens : Started(g) ~> Settled(g)

\* C27: within one load every tracked url is reported complete to the
\* internal pending counter at most once, so on no loader instance the number
\* of completed items exceeds the number of registered items, on the success
\* path and on every failure path.
C27_CompletedWithinRegistered ==
    gen <= 1 => \A i \in Inst : loaded[i] <= total[i]

\* C28: the busy flag of the instance is set exactly while its current load
\* has delivered neither onLoad nor onError: it is cleared once the load has
\* settled, by success or by any failure (so that the next load() is
\* accepted), and it is never cleared before.
C28_BusyWhileUnsettled ==
    gen \in Gens => (busy[0] <=> Unsettled(gen))

\* C29: for every load the caller's LoadingManager receives exactly one
\* itemEnd(url) matching the itemStart(url) of load(): never more than one,
\* and one once the load has called onLoad or onError, whether the load
\* succeeds or fails and however many dependencies fail.
C29_OneItemEndPerLoad ==
    \A g \in Gens :
        Started(g) =>
            /\ mgr[g].start = 1
            /\ mgr[g].end <= 1
            /\ (usr[g].onLoad > 0 \/ usr[g].onError > 0) => mgr[g].end = 1

\* ------------------------------------------------------------------------
\* Part II - DotMaterialLoader.parse (lines 1701-1928)
\* ------------------------------------------------------------------------
\* longest run of free lines that follows the opening lines of a text
MaxTail == 3
\* texture_unit blocks and emissive commands of one pass
MaxItems == 3

\* A material text is the sequence of its lines after trim(). A line is
\* named by what the parser can tell from it: the keyword it starts with, a
\* lone brace, or anything else ("other": a colour command, an unknown
\* command, an empty line). A texture line names a file or names nothing;
\* the emissive command carries a colour that is not white.
LineKinds == {"material", "technique", "pass", "texture_unit", "texture",
              "texture a", "emissive 1 0 0", "{", "}", "other"}

\* the texture lines and the file each names (t[1] of line 1860)
TexLine(name) ==
    CASE name = "a" -> "texture a"
      [] name = "b" -> "texture b"
      [] name = "c" -> "texture c"
      [] OTHER      -> "texture"

TexNames == {"a", "b", "c"}

\* lines[i]?.trim() (lines 1708-1709): undefined past the last line
LineAt(t, i) == IF i <= Len(t) THEN t[i] ELSE "undefined"

\* line.split(/\s+/)[0], the keyword of a line (lines 1716, 1742, 1772,
\* 1810, 1860)
Kw(line) ==
    IF \E n \in TexNames : line = TexLine(n) THEN "texture"
    ELSE IF line = "emissive 1 0 0" THEN "emissive"
    ELSE line

\* line.split(/\s+/)[1] of a texture line (lines 1864, 1869): the file name,
\* undefined when the line has no second token
Arg(line) ==
    IF \E n \in TexNames : line = TexLine(n)
    THEN CHOOSE n \in TexNames : line = TexLine(n)
    ELSE "undefined"

\* line?.startsWith(token) of eat (line 1924) for the tokens eat is given
StartsWith(line, token) == line = token

MatOk(i, mats) == [done |-> TRUE, status |-> "ok", i |-> i, mats |-> mats,
                   line |-> "none", code |-> "none"]

\* new DotMaterialError(`Expected "${token}" but got "${line}"`, { line })
\* thrown by eat (line 1925): the constructor (lines 1967-1972) takes
\* (code, detail, meta), so the text of the message is stored as the code
\* and the object { line } as the detail
MatErr(i, line) == [done |-> TRUE, status |-> "DotMaterialError", i |-> i,
                    mats |-> <<>>, line |-> line, code |-> "Expected token"]

\* peek().split / next().split on undefined (lines 1742, 1772, 1810, 1860),
\* .flipY of a null texture (lines 1865, 1872)
MatTypeError(i) == [done |-> TRUE, status |-> "TypeError", i |-> i,
                    mats |-> <<>>, line |-> "none", code |-> "undefined"]

\* eat(token) (lines 1921-1927): reads the next line, throws unless it
\* starts with the token
EatFails(t, i, token) == ~StartsWith(LineAt(t, i), token)

\* the material of a pass (lines 1795-1800): a MeshPhongMaterial has no map,
\* no emissive map, a black emissive colour and emissiveIntensity 1
NewPass == [map |-> "none", emissiveMap |-> "none", emissive |-> "black",
            emissiveIntensity |-> 1]

\* loadTex (lines 1894-1896): the texture of the file, null without a name
LoadTex(texName) == IF texName = "undefined" THEN "null" ELSE texName

\* case 'texture' of handleTextureUnit (lines 1862-1875); m.map.flipY and
\* m.emissiveMap.flipY throw a TypeError when loadTex returned null
SetTexture(m, texName) ==
    IF m.map = "none"
    THEN [ok |-> LoadTex(texName) # "null", m |-> [m EXCEPT !.map = LoadTex(texName)]]
    ELSE IF m.emissiveMap = "none"
         THEN [ok |-> LoadTex(texName) # "null",
               m  |-> [m EXCEPT !.emissiveMap = LoadTex(texName),
                                !.emissiveIntensity = 1,
                                !.emissive = "white"]]
         ELSE [ok |-> TRUE, m |-> m]

RECURSIVE TextureUnitLoop(_, _, _)
\* the loop of handleTextureUnit (lines 1858-1885); the result carries the
\* material in mats
TextureUnitLoop(t, i, m) ==
    IF LineAt(t, i) = "}" THEN MatOk(i + 1, <<m>>)
    ELSE IF LineAt(t, i) = "undefined" THEN MatTypeError(i)
    ELSE IF Kw(LineAt(t, i)) = "texture"
         THEN LET r == SetTexture(m, Arg(LineAt(t, i)))
              IN  IF r.ok THEN TextureUnitLoop(t, i + 1, r.m) ELSE MatTypeError(i + 1)
    ELSE TextureUnitLoop(t, i + 1, m)

\* handleTextureUnit (lines 1854-1886), entered after the texture_unit line
HandleTextureUnit(t, i, m) ==
    IF EatFails(t, i, "{") THEN MatErr(i + 1, LineAt(t, i))
    ELSE TextureUnitLoop(t, i + 1, m)

RECURSIVE PassLoop(_, _, _)
\* the loop of parsePassBlock (lines 1808-1841)
PassLoop(t, i, m) ==
    IF LineAt(t, i) = "}" THEN MatOk(i + 1, <<m>>)
    ELSE IF LineAt(t, i) = "undefined" THEN MatTypeError(i)
    ELSE IF Kw(LineAt(t, i)) = "texture_unit"
         THEN LET r == HandleTextureUnit(t, i + 1, m)
              IN  IF r.status # "ok" THEN r ELSE PassLoop(t, r.i, r.mats[1])
    ELSE IF Kw(LineAt(t, i)) = "emissive"
         THEN PassLoop(t, i + 1, [m EXCEPT !.emissive = "authored"])
    ELSE PassLoop(t, i + 1, m)

\* parsePassBlock (lines 1794-1842), entered at a line whose keyword is pass
ParsePassBlock(t, i) ==
    IF EatFails(t, i, "pass") THEN MatErr(i + 1, LineAt(t, i))
    ELSE IF EatFails(t, i + 1, "{") THEN MatErr(i + 2, LineAt(t, i + 1))
    ELSE PassLoop(t, i + 2, NewPass)

RECURSIVE TechniqueLoop(_, _, _)
\* the loop of parseTechniqueBlock (lines 1771-1780)
TechniqueLoop(t, i, locals) ==
    IF LineAt(t, i) = "}" THEN MatOk(i + 1, locals)
    ELSE IF LineAt(t, i) = "undefined" THEN MatTypeError(i)
    ELSE IF Kw(LineAt(t, i)) = "pass"
         THEN LET r == ParsePassBlock(t, i)
              IN  IF r.status # "ok" THEN r
                  ELSE TechniqueLoop(t, r.i, locals \o r.mats)
    ELSE TechniqueLoop(t, i + 1, locals)

\* parseTechniqueBlock (lines 1767-1781), entered at a technique line
ParseTechniqueBlock(t, i) ==
    IF EatFails(t, i, "technique") THEN MatErr(i + 1, LineAt(t, i))
    ELSE IF EatFails(t, i + 1, "{") THEN MatErr(i + 2, LineAt(t, i + 1))
    ELSE TechniqueLoop(t, i + 2, <<>>)

RECURSIVE MaterialLoop(_, _, _)
\* the loop of parseMaterialBlock (lines 1741-1753)
MaterialLoop(t, i, locals) ==
    IF LineAt(t, i) = "}" THEN MatOk(i + 1, locals)
    ELSE IF LineAt(t, i) = "undefined" THEN MatTypeError(i)
    ELSE IF Kw(LineAt(t, i)) = "technique"
         THEN LET r == ParseTechniqueBlock(t, i)
              IN  IF r.status # "ok" THEN r
                  ELSE MaterialLoop(t, r.i, locals \o r.mats)
    ELSE MaterialLoop(t, i + 1, locals)

\* parseMaterialBlock (lines 1736-1754), entered after the material line
ParseMaterialBlock(t, i) ==
    IF EatFails(t, i, "{") THEN MatErr(i + 1, LineAt(t, i))
    ELSE MaterialLoop(t, i + 1, <<>>)

RECURSIVE MatParseFrom(_, _, _)
\* the top-level loop of parse (lines 1712-1721): lines outside a material
\* are skipped
MatParseFrom(t, i, mats) ==
    IF i > Len(t) THEN MatOk(i, mats)
    ELSE IF Kw(LineAt(t, i)) # "material" THEN MatParseFrom(t, i + 1, mats)
    ELSE LET r == ParseMaterialBlock(t, i + 1)
         IN  IF r.status # "ok" THEN r ELSE MatParseFrom(t, r.i, mats \o r.mats)

\* DotMaterialLoader.parse(text)
MatParseText(t) == MatParseFrom(t, 1, <<>>)

\* The texts given to parse: the opening lines of a material down to some
\* depth, followed by up to MaxTail lines of any kind.
Openers == {<<>>,
            <<"material">>,
            <<"material", "{">>,
            <<"material", "{", "technique", "{">>,
            <<"material", "{", "technique", "{", "pass", "{">>,
            <<"material", "{", "technique", "{", "pass", "{", "texture_unit", "{">>}

\* The commands of a pass that matter to its textures: a texture_unit block
\* with its texture lines ("" for a texture line without a name), and the
\* emissive command.
Unit(names) == [cmd |-> "texture_unit", tex |-> names]

PassItems == {Unit(<<>>), Unit(<<"a">>), Unit(<<"b">>), Unit(<<"c">>),
              Unit(<<"a", "b">>), Unit(<<"">>), [cmd |-> "emissive", tex |-> <<>>]}

ItemLines(item) ==
    IF item.cmd = "emissive" THEN <<"emissive 1 0 0">>
    ELSE <<"texture_unit", "{">>
           \o [k \in 1 .. Len(item.tex) |-> TexLine(item.tex[k])] \o <<"}">>

RECURSIVE ItemsLines(_)
ItemsLines(items) ==
    IF items = <<>> THEN <<>> ELSE ItemLines(items[1]) \o ItemsLines(Tail(items))

\* a material of one technique of one pass with these commands
PassText(items) ==
    <<"material", "{", "technique", "{", "pass", "{">>
      \o ItemsLines(items) \o <<"}", "}", "}">>

MatInit ==
    /\ \/ \E o \in Openers : \E n \in 0 .. MaxTail : \E tl \in [1 .. n -> LineKinds] :
             mtext = o \o tl
       \/ \E n \in 0 .. MaxItems : \E items \in [1 .. n -> PassItems] :
             mtext = PassText(items)
    /\ mres = NoRes

\* parse(text) is called with the text
MatParse ==
    /\ ~mres.done
    /\ mres' = MatParseText(mtext)
    /\ UNCHANGED <<mtext, loadVars, xmlVars, subVars, pathVars>>

NextMat == MatParse

InitMat == LoadInit /\ MatInit /\ XmlIdle /\ SubIdle /\ PathIdle

SpecMat == InitMat /\ [][NextMat]_vars

\* a material block is opened at line k and no later line closes a block
LeftOpen(t) ==
    \E k \in 1 .. Len(t) - 1 :
        /\ t[k] = "material"
        /\ t[k + 1] = "{"
        /\ \A j \in k + 2 .. Len(t) : t[j] # "}"

\* C4: parse of a text in which a material block is opened and the input
\* ends before any closing brace raises a DotMaterialError; it neither
\* returns a material list nor fails with another kind of error.
C4_UnterminatedIsDotMaterialError ==
    (mres.done /\ LeftOpen(mtext)) => mres.status = "DotMaterialError"

\* the categories of LoaderErrorCode (line 1936)
ErrorCodes == {"E_IO", "E_XML", "E_FORMAT", "E_RANGE", "E_RUNTIME"}

\* C13: every error raised by the loaders carries a code of the fixed set
\* E_IO, E_XML, E_FORMAT, E_RANGE, E_RUNTIME; here for the errors thrown by
\* DotMaterialLoader.parse, which DotMaterialLoader.load hands to onError
\* and to the rejection of its promise as they are.
C13_ErrorsCarryKnownCode ==
    (mres.done /\ mres.status # "ok") => mres.code \in ErrorCodes

\* the commands of the pass of a one-pass text
PassOf(items) == mtext = PassText(items)

RECURSIVE TexturesOf(_)
\* the textures of a pass in the order of the text, over all its units
TexturesOf(items) ==
    IF items = <<>> THEN <<>> ELSE items[1].tex \o TexturesOf(Tail(items))

AllNamed(items) == \A k \in 1 .. Len(TexturesOf(items)) : TexturesOf(items)[k] # ""

NthTexture(items, n) ==
    IF Len(TexturesOf(items)) >= n THEN TexturesOf(items)[n] ELSE "none"

\* C12: within one pass, the first texture met over all texture_unit blocks
\* is the diffuse map and the second the emissive map; with an emissive map
\* the emissive colour of the pass is white and its emissive intensity 1;
\* any further texture leaves the material as it is.
C12_FirstDiffuseSecondEmissive ==
    \A n \in 0 .. MaxItems : \A items \in [1 .. n -> PassItems] :
        (mres.done /\ PassOf(items) /\ AllNamed(items)) =>
            /\ mres.status = "ok"
            /\ Len(mres.mats) = 1
            /\ mres.mats[1].map = NthTexture(items, 1)
            /\ mres.mats[1].emissiveMap = NthTexture(items, 2)
            /\ mres.mats[1].emissiveMap # "none" =>
                  /\ mres.mats[1].emissive = "white"
                  /\ mres.mats[1].emissiveIntensity = 1

\* ------------------------------------------------------------------------
\* Part III - OgreMaxLoader.parse and the mesh parsers
\* ------------------------------------------------------------------------
\* <submesh> elements of a <submeshes> block
MaxSubmeshes == 2
\* <vertexbuffer> elements of a geometry block
MaxBuffers == 2
\* <vertex> elements of one <vertexbuffer> of the small geometries
MaxVerts == 2
\* texture-coordinate sets a <vertexbuffer> declares (texture_coords)
MaxTexSets == 2
\* runs of equal <face> elements of a <faces> block
MaxFaceRuns == 2
\* <vertexboneassignment> elements of a <boneassignments> block
MaxAssign == 5

\* <bone> elements of a <bones> block
MaxBones == 3
\* <boneparent> elements of a <bonehierarchy> block
MaxLinks == 2
\* <animation> elements of an <animations> block
MaxClips == 2

\* the largest index count kept in a Uint16Array (line 813)
Uint16Max == 65535
\* skin slots of a vertex (lines 607-608, 627)
SlotsPerVertex == 4

\* An attribute as written in the document: missing, an integer literal, or
\* text that is no number.
Absent == [k |-> "absent", v |-> 0]

Junk == [k |-> "junk", v |-> 0]

Lit(n) == [k |-> "int", v |-> n]

\* A JavaScript number: an integer or NaN. Weights are in hundredths.
Num(n) == [nan |-> FALSE, v |-> n]

NaN == [nan |-> TRUE, v |-> 0]

\* #attrInt (lines 1378-1380): parseInt(getAttribute(attr) ?? default, 10)
AttrInt(a, def) ==
    IF a.k = "absent" THEN Num(def) ELSE IF a.k = "junk" THEN NaN ELSE Num(a.v)

\* #attrFloat (lines 1366-1368): parseFloat(getAttribute(attr) ?? default)
AttrFloat(a, def) ==
    IF a.k = "absent" THEN Num(def) ELSE IF a.k = "junk" THEN NaN ELSE Num(a.v)

\* a number used as a condition (line 716): 0 and NaN are falsy
Truthy(x) == ~x.nan /\ x.v # 0

\* x >= n (lines 621, 683): false when x is NaN
IsGE(x, n) == ~x.nan /\ x.v >= n

\* x === 0 (line 629)
IsZero(x) == ~x.nan /\ x.v = 0

\* n + x (lines 618, 679-681)
Plus(n, x) == IF x.nan THEN NaN ELSE Num(n + x.v)

\* An unsigned integer of a typed array, as its two 16-bit halves.
\* new Uint16Array(indices) (lines 814-815): the value modulo 2^16, NaN as 0
ToUint16(x) ==
    IF x.nan THEN [hi |-> 0, lo |-> 0]
    ELSE [hi |-> 0, lo |-> x.v % (Uint16Max + 1)]

\* new Uint32Array(indices) (lines 814-815): the value modulo 2^32, NaN as 0
ToUint32(x) ==
    IF x.nan THEN [hi |-> 0, lo |-> 0]
    ELSE [hi |-> (x.v \div (Uint16Max + 1)) % (Uint16Max + 1),
          lo |-> x.v % (Uint16Max + 1)]

\* the result of a parser below parse(): its value, or the error it throws
Good(val) == [ok |-> TRUE, val |-> val, err |-> [code |-> "none"]]

Bad(code, msg, info) ==
    [ok |-> FALSE, val |-> 0, err |-> [code |-> code, msg |-> msg, info |-> info]]

\* #parseVertexbuffer (lines 905-931): one position per <vertex> when the
\* buffer declares positions="true"
ParseVertexbuffer(vb) == IF vb.positions THEN vb.n ELSE 0

\* the dimension of a texture-coordinate set (lines 912-913): the text of
\* texture_coord_dimensions_i without 'float' as an integer, 2 when the
\* attribute is missing
TcDim(text) ==
    CASE text = ""       -> 2
      [] text = "float1" -> 1
      [] text = "float2" -> 2
      [] text = "float3" -> 3
      [] text = "float4" -> 4

\* ![1, 2, 3].includes(dimension) for one of the declared sets (line 915);
\* dims holds the texts of the texture_coords declared sets
BadDims(vb) == \E i \in 1 .. Len(vb.dims) : TcDim(vb.dims[i]) \notin {1, 2, 3}

RECURSIVE FlatUvs(_)
\* the numbers that flatMap (line 796) makes of the uvs of one <vertex>
\* (lines 876-893): a Vector3 of #attrUVW gives 3, a Vector2 of #attrUV
\* gives 2, and the number of #attrU has no toArray, so it gives [u.x, u.y]
FlatUvs(dims) ==
    IF dims = <<>> THEN 0
    ELSE (IF TcDim(Head(dims)) = 3 THEN 3 ELSE 2) + FlatUvs(Tail(dims))

RECURSIVE SumUvs(_)
\* flatUvs.length for the buffers of a geometry block (lines 711-716,
\* 924-929): every <vertex> of a buffer gives the uvs of its declared sets
SumUvs(bufs) ==
    IF bufs = <<>> THEN 0
    ELSE Head(bufs).n * FlatUvs(Head(bufs).dims) + SumUvs(Tail(bufs))

RECURSIVE SumBuffers(_)
SumBuffers(bufs) ==
    IF bufs = <<>> THEN 0
    ELSE ParseVertexbuffer(Head(bufs)) + SumBuffers(Tail(bufs))

\* #parseGeometry (lines 703-721): the number of vertices of the block
ParseGeometry(g, url) ==
    LET parsed   == SumBuffers(g.bufs)
        declared == AttrInt(g.vertexcount, 0)
    IN  IF \E k \in 1 .. Len(g.bufs) : BadDims(g.bufs[k])
        THEN Bad("E_FORMAT", "texture_coord_dimensions (expected 1/2/3)", [url |-> url])
        ELSE IF Truthy(declared) /\ declared.v # parsed
        THEN Bad("E_FORMAT", "vertexcount differs from parsed",
                 [declared |-> declared.v, parsed |-> parsed, url |-> url])
        ELSE Good(parsed)

RECURSIVE FacesFrom(_, _, _, _, _, _)
\* the loop of #parseFaces (lines 676-690) from run k on; a run stands for
\* n equal <face> elements
FacesFrom(runs, k, base, vertCount, acc, url) ==
    IF k > Len(runs) THEN Good(acc)
    ELSE LET v1 == AttrInt(runs[k].face[1], 0)
             v2 == AttrInt(runs[k].face[2], 0)
             v3 == AttrInt(runs[k].face[3], 0)
         IN  IF IsGE(v1, vertCount) \/ IsGE(v2, vertCount) \/ IsGE(v3, vertCount)
             THEN Bad("E_RANGE", "Face index out of range",
                      [at |-> k, vertCount |-> vertCount, url |-> url])
             ELSE FacesFrom(runs, k + 1, base, vertCount,
                            Append(acc, [idx |-> <<Plus(base, v1), Plus(base, v2),
                                                   Plus(base, v3)>>,
                                         n |-> runs[k].n]),
                            url)

\* #parseFaces (lines 672-693)
ParseFaces(runs, base, vertCount, url) ==
    FacesFrom(runs, 1, base, vertCount, <<>>, url)

\* a search that takes every slot of the vertex for free
FreeSlotsAll(skin, vAbs) ==
    IF vAbs.nan \/ vAbs.v \notin DOMAIN skin THEN {}
    ELSE 0 .. SlotsPerVertex - 1

\* the slots of vertex vAbs that the loop of lines 627-635 finds free:
\* skinWgt[off] === 0; off the array the value is undefined
FreeSlots(skin, vAbs) ==
    IF vAbs.nan \/ vAbs.v \notin DOMAIN skin THEN {}
    ELSE {s \in 0 .. SlotsPerVertex - 1 : IsZero(skin[vAbs.v][s].w)}

\* a missing check of placed
NotPlacedNever(free) == FALSE

\* !placed (line 637)
NotPlaced(free) == free = {}

RECURSIVE AssignFrom(_, _, _, _, _)
\* the loop of #parseBoneassignments (lines 613-640) from assignment k on
AssignFrom(assigns, k, skin, base, end) ==
    IF k > Len(assigns) THEN Good(skin)
    ELSE LET vIndex == AttrInt(assigns[k].vertexindex, 0)
             bIndex == AttrInt(assigns[k].boneindex, 0)
             weight == AttrFloat(assigns[k].weight, 0)
             vAbs   == Plus(base, vIndex)
             free   == FreeSlots(skin, vAbs)
         IN  IF IsGE(vAbs, end)
             THEN Bad("E_RANGE", "vertexindex out of range",
                      [at |-> k, vertex |-> vIndex])
             ELSE IF NotPlaced(free)
             THEN Bad("E_FORMAT", "More than 4 bone influences for vertex",
                      [at |-> k, vertex |-> vIndex])
             ELSE IF free = {} THEN AssignFrom(assigns, k + 1, skin, base, end)
             ELSE LET s == CHOOSE x \in free : \A y \in free : x <= y
                  IN  AssignFrom(assigns, k + 1,
                                 [skin EXCEPT ![vAbs.v][s] = [b |-> bIndex, w |-> weight]],
                                 base, end)

\* #parseBoneassignments (lines 605-641): four (0, 0) slots per vertex, then
\* the assignments in document order
ParseBoneassignments(assigns, base, end) ==
    AssignFrom(assigns, 1,
               [v \in base .. end - 1 |->
                    [s \in 0 .. SlotsPerVertex - 1 |-> [b |-> Num(0), w |-> Num(0)]]],
               base, end)

RECURSIVE IndexCount(_)
\* indices.length (line 812)
IndexCount(faces) ==
    IF faces = <<>> THEN 0 ELSE 3 * Head(faces).n + IndexCount(Tail(faces))

\* need32 (line 813)
Need32(use32bitindexes, faces) ==
    use32bitindexes \/ IndexCount(faces) > Uint16Max

\* new IndexType(indices) (lines 814-815)
StoreIndex(faces, need32) ==
    [k \in 1 .. Len(faces) |->
        [idx |-> [j \in 1 .. 3 |-> IF need32 THEN ToUint32(faces[k].idx[j])
                                   ELSE ToUint16(faces[k].idx[j])],
         n |-> faces[k].n]]

\* #parseSubmesh (lines 755-847)
ParseSubmesh(sm, shared, url) ==
    LET verts ==
            IF sm.usesharedvertices
            THEN IF shared = <<>>
                 THEN Bad("E_FORMAT", "usesharedvertices is true but no shared geometry provided",
                          [url |-> url])
                 ELSE Good(shared[1])
            ELSE IF sm.geometry # <<>> THEN ParseGeometry(sm.geometry[1], url)
            ELSE Good(0)
    IN  IF ~verts.ok THEN verts
        ELSE
        LET faces == IF sm.faces # <<>>
                     THEN ParseFaces(sm.faces[1], 0, verts.val, url)
                     ELSE Good(<<>>)
        IN  IF ~faces.ok THEN faces
            ELSE
            LET skin == IF sm.boneassignments # <<>>
                        THEN ParseBoneassignments(sm.boneassignments[1], 0, verts.val)
                        ELSE Good(<<>>)
                need32 == Need32(sm.use32bitindexes, faces.val)
                flatUvs == IF sm.usesharedvertices THEN shared[2]
                           ELSE IF sm.geometry # <<>> THEN SumUvs(sm.geometry[1].bufs)
                           ELSE 0
            IN  IF ~skin.ok THEN skin
                ELSE Good([kind  |-> IF sm.operationtype \in {"line_list", "line_strip"}
                                     THEN "Line" ELSE "SkinnedMesh",
                           nverts |-> verts.val,
                           uv |-> flatUvs,
                           width |-> IF IndexCount(faces.val) = 0 THEN 0
                                     ELSE IF need32 THEN 32 ELSE 16,
                           index |-> StoreIndex(faces.val, need32),
                           skin  |-> skin.val])

RECURSIVE SubmeshesFrom(_, _, _, _, _)
\* the loop of #parseSubmeshes (lines 740-742)
SubmeshesFrom(subs, k, shared, acc, url) ==
    IF k > Len(subs) THEN Good(acc)
    ELSE LET r == ParseSubmesh(subs[k], shared, url)
         IN  IF ~r.ok THEN r
             ELSE SubmeshesFrom(subs, k + 1, shared, Append(acc, r.val), url)

\* #parseSubmeshes (lines 731-745)
ParseSubmeshes(subs, shared, url) ==
    IF Len(subs) = 0
    THEN Bad("E_XML", "No <submesh> found inside <submeshes>", [url |-> url])
    ELSE SubmeshesFrom(subs, 1, shared, <<>>, url)

\* #parseMesh (lines 341-400); the nested skeleton load it starts belongs
\* to Part I
ParseMesh(doc, url) ==
    LET sharedGeom == IF doc.sharedgeometry # <<>>
                      THEN ParseGeometry(doc.sharedgeometry[1], url)
                      ELSE Good(0)
    IN  IF ~sharedGeom.ok THEN sharedGeom
        ELSE IF doc.submeshes = <<>>
        THEN Bad("E_XML", "<mesh> is missing a <submeshes> block", [url |-> url])
        ELSE LET r == ParseSubmeshes(doc.submeshes[1],
                                     IF doc.sharedgeometry # <<>>
                                     THEN <<sharedGeom.val,
                                            SumUvs(doc.sharedgeometry[1].bufs)>>
                                     ELSE <<>>,
                                     url)
             IN  IF ~r.ok THEN r
                 ELSE Good([kind |-> IF Len(r.val) = 1 THEN r.val[1].kind ELSE "Group",
                            subs |-> r.val,
                            skeletonlink |-> doc.skeletonlink])

\* #parseScene, as far as parse() is concerned: a scene, or the error of a
\* malformed rotation of one of its nodes (lines 1441, 1477)
ParseScene(doc, url) ==
    IF doc.bad THEN Bad("E_FORMAT", "Invalid quaternion component", [url |-> url])
    ELSE Good([kind |-> "Scene", subs |-> <<>>, skeletonlink |-> FALSE])

\* ------------------------------------------------------------------------
\* Part III - the skeleton parsers
\* ------------------------------------------------------------------------
\* #attrFloat(node, attr, NaN) (lines 1435-1438)
AttrFloatNaN(a) == IF a.k = "int" THEN Num(a.v) ELSE NaN

\* #attrFloat of a child element that may be missing (lines 1455,
\* 1469-1471): the default when the element or the attribute is missing
ChildFloat(elem, attr, def) ==
    IF elem = <<>> THEN Num(def) ELSE AttrFloat(elem[1][attr], def)

\* A decoded rotation: the encoding it was decoded from and the numbers
\* given to Quaternion.set(...).normalize(), to setFromAxisAngle(axis
\* .normalize(), angle) or to setFromEuler(new Euler(x, y, z, 'XYZ')) after
\* the factor Math.PI / 180; the identity has none.
Identity == [enc |-> "identity", args |-> <<>>, order |-> "none", unit |-> "none"]

\* XMLNode.hasAttribute('qx') (line 1434), for a decoder that never sees it
HasQuaternionNever(rot) == FALSE

\* XMLNode.hasAttribute('qx') (line 1434)
HasQuaternion(rot) == rot.qx.k # "absent"

\* hasAttribute('angle') || #querySelect(XMLNode, 'angle') (line 1451)
HasAxisAngle(rot) == rot.angle.k # "absent" \/ rot.angleElem # <<>>

\* hasAttribute('angleX') || 'angleY' || 'angleZ' (line 1485)
HasEuler(rot) ==
    rot.angleX.k # "absent" \/ rot.angleY.k # "absent" \/ rot.angleZ.k # "absent"

\* the explicit quaternion (lines 1435-1445)
DecodeQuaternion(rot) ==
    LET q == <<AttrFloatNaN(rot.qx), AttrFloatNaN(rot.qy), AttrFloatNaN(rot.qz),
               AttrFloatNaN(rot.qw)>>
    IN  IF \E k \in 1 .. 4 : q[k].nan
        THEN Bad("E_FORMAT", "Invalid quaternion component", [node |-> "rotation"])
        ELSE Good([enc |-> "quaternion", args |-> q, order |-> "none", unit |-> "none"])

\* axis and angle (lines 1453-1480): isFinite(angle) is false for NaN, and
\* lengthSq() of an axis with a NaN component is NaN, which is not 0
DecodeAxisAngle(rot) ==
    LET angle == IF rot.angle.k # "absent" THEN AttrFloatNaN(rot.angle)
                 ELSE ChildFloat(rot.angleElem, "value", 0)
        axis  == IF rot.axisX.k # "absent"
                 THEN <<AttrFloat(rot.axisX, 0), AttrFloat(rot.axisY, 0),
                        AttrFloat(rot.axisZ, 1)>>
                 ELSE <<ChildFloat(rot.axisElem, "x", 0), ChildFloat(rot.axisElem, "y", 0),
                        ChildFloat(rot.axisElem, "z", 1)>>
    IN  IF angle.nan \/ \A k \in 1 .. 3 : IsZero(axis[k])
        THEN Bad("E_FORMAT", "Invalid axis-angle rotation", [node |-> "rotation"])
        ELSE Good([enc |-> "axisAngle", args |-> axis \o <<angle>>, order |-> "none",
                   unit |-> "rad"])

\* the Euler angles (lines 1486-1489)
DecodeEuler(rot) ==
    Good([enc |-> "euler",
          args |-> <<AttrFloat(rot.angleX, 0), AttrFloat(rot.angleY, 0),
                     AttrFloat(rot.angleZ, 0)>>,
          order |-> "XYZ", unit |-> "deg"])

\* #attrQuaternion (lines 1427-1495); node is the <rotation> element, or
\* nothing
AttrQuaternion(node) ==
    IF node = <<>> THEN Good(Identity)
    ELSE IF HasQuaternion(node[1]) THEN DecodeQuaternion(node[1])
    ELSE IF HasAxisAngle(node[1]) THEN DecodeAxisAngle(node[1])
    ELSE IF HasEuler(node[1]) THEN DecodeEuler(node[1])
    ELSE Good(Identity)

\* #parseBone (lines 1172-1180): a THREE.Bone with the name, the declared id
\* and the rotation of the <bone> (#attrMatrix, line 1391); node is the
\* position of the declaration and stands for the identity of the object,
\* parent for bone.parent (0: none)
ParseBone(b, k) ==
    LET q == AttrQuaternion(b.rotation)
    IN  IF ~q.ok THEN q
        ELSE Good([name |-> b.name, index |-> AttrInt(b.id, 0), parent |-> 0,
                   node |-> k, quaternion |-> q.val])

\* the position of the key name in the bones object, 0 when it has none
KeyOf(map, name) ==
    IF \E j \in 1 .. Len(map) : map[j].name = name
    THEN CHOOSE j \in 1 .. Len(map) : map[j].name = name
    ELSE 0

\* bones[bone.name] = bone (line 1195): a key that exists keeps its place
\* among the keys and gets the new value
SetBone(map, bone) ==
    IF KeyOf(map, bone.name) # 0
    THEN [map EXCEPT ![KeyOf(map, bone.name)] = bone]
    ELSE Append(map, bone)

RECURSIVE BonesFrom(_, _, _)
BonesFrom(list, k, map) ==
    IF k > Len(list) THEN Good(map)
    ELSE LET r == ParseBone(list[k], k)
         IN  IF ~r.ok THEN r ELSE BonesFrom(list, k + 1, SetBone(map, r.val))

\* #parseBones (lines 1188-1198): the bones keyed by name, as the sequence
\* of the values of the object in the order of its keys
ParseBones(list) == BonesFrom(list, 1, <<>>)

\* parent && bone && parent.add(bone) (line 1214): Object3D.add refuses to
\* add an object to itself and takes the object from its former parent
AddBone(map, link) ==
    LET p == KeyOf(map, link.parent)
        b == KeyOf(map, link.bone)
    IN  IF p = 0 \/ b = 0 \/ p = b THEN map
        ELSE [map EXCEPT ![b].parent = map[p].node]

RECURSIVE LinksFrom(_, _, _)
LinksFrom(links, k, map) ==
    IF k > Len(links) THEN map
    ELSE LinksFrom(links, k + 1, AddBone(map, links[k]))

\* an insertion that leaves the bones in the order of the map
InsertLast(sorted, b) == Append(sorted, b)

\* one step of the stable sort of line 1218: b goes behind the bones whose
\* index is not larger
InsertByIndex(sorted, b) ==
    LET k == Cardinality({j \in 1 .. Len(sorted) : sorted[j].index.v <= b.index.v})
    IN  SubSeq(sorted, 1, k) \o <<b>> \o SubSeq(sorted, k + 1, Len(sorted))

RECURSIVE SortFrom(_, _, _)
SortFrom(map, k, sorted) ==
    IF k > Len(map) THEN sorted
    ELSE SortFrom(map, k + 1, InsertByIndex(sorted, map[k]))

\* #parseBoneHierarchy (lines 1207-1220): the links, then
\* Object.values(bones).sort((a, b) => a.userData.index - b.userData.index)
ParseBoneHierarchy(links, map) == SortFrom(LinksFrom(links, 1, map), 1, <<>>)

\* the attribute text "Infinity", which parseFloat reads as Infinity
Infinite == [k |-> "inf", v |-> 0]

\* #attrFloat(XMLNode, 'length', 0) (line 1129), as a number that may be
\* infinite
AttrLength(a) ==
    IF a.k = "inf" THEN [nan |-> FALSE, inf |-> TRUE, v |-> 0]
    ELSE [nan |-> AttrFloat(a, 0).nan, inf |-> FALSE, v |-> AttrFloat(a, 0).v]

\* !length || !isFinite(length) (line 1131): 0, NaN and Infinity
InvalidLength(x) == x.nan \/ x.inf \/ x.v = 0

\* #parseTracks (lines 1321-1330) of a <tracks> element without <track>
ParseTracks(node) == <<>>

\* #parseAnimation (lines 1127-1146): the clip gets the name, the length
\* as read and the tracks
ParseAnimation(a, url) ==
    LET name   == IF a.name = "" THEN "default" ELSE a.name
        length == AttrLength(a.length)
    IN  IF InvalidLength(length)
        THEN Bad("E_FORMAT", "Animation has invalid length", [url |-> url])
        ELSE IF ~a.tracks
        THEN Bad("E_XML", "Animation missing <tracks>", [url |-> url])
        ELSE Good([name |-> name, length |-> length, tracks |-> ParseTracks(a.tracks)])

RECURSIVE ClipsFrom(_, _, _, _)
ClipsFrom(anims, k, clips, url) ==
    IF k > Len(anims) THEN Good(clips)
    ELSE LET r == ParseAnimation(anims[k], url)
         IN  IF ~r.ok THEN r ELSE ClipsFrom(anims, k + 1, Append(clips, r.val), url)

\* #parseAnimations (lines 1155-1164)
ParseAnimations(anims, url) == ClipsFrom(anims, 1, <<>>, url)

\* #parseSkeleton (lines 447-467): the bones, then the clips of
\* <animations>, then the hierarchy
ParseSkeleton(doc, url) ==
    IF ~doc.bones \/ ~doc.bonehierarchy
    THEN Bad("E_XML", "<skeleton> is missing <bones> or <bonehierarchy>", [url |-> url])
    ELSE LET r == ParseBones(doc.bonelist)
             c == ParseAnimations(doc.animations, url)
         IN  IF ~r.ok THEN r
             ELSE IF ~c.ok THEN c
             ELSE Good([kind |-> "Skeleton", subs |-> <<>>, skeletonlink |-> FALSE,
                        bones |-> ParseBoneHierarchy(doc.links, r.val),
                        animations |-> c.val])

\* what parse(xml) did: the keys of the data object it returned and the
\* object under that key, or the error it threw
Returned(key, r) ==
    IF r.ok
    THEN [done |-> TRUE, status |-> "ok", data |-> {key}, obj |-> r.val,
          err |-> r.err]
    ELSE [done |-> TRUE, status |-> "error", data |-> {},
          obj |-> [kind |-> "none"], err |-> r.err]

\* a dispatcher that ignores a root it does not know
ParseDefaultSilent(doc, url) ==
    [done |-> TRUE, status |-> "ok", data |-> {}, obj |-> [kind |-> "none"],
     err |-> [code |-> "none"]]

\* the default branch of parse (lines 224-225)
ParseDefault(doc, url) ==
    Returned("none", Bad("E_XML", "Unknown root node", [tag |-> doc.root, url |-> url]))

\* OgreMaxLoader.parse (lines 210-229)
Parse(doc, url) ==
    CASE doc.root = "scene"    -> Returned("scene", ParseScene(doc, url))
      [] doc.root = "mesh"     -> Returned("mesh", ParseMesh(doc, url))
      [] doc.root = "skeleton" -> Returned("skeleton", ParseSkeleton(doc, url))
      [] OTHER                 -> ParseDefault(doc, url)

\* ------------------------------------------------------------------------
\* Part III - the documents given to parse
\* ------------------------------------------------------------------------
\* enough equal faces for more than Uint16Max indices
BigRun == (Uint16Max \div 3) + 1

\* a <submesh> with no child and no attribute
PlainSub == [usesharedvertices |-> FALSE, geometry |-> <<>>, faces |-> <<>>,
             boneassignments |-> <<>>, use32bitindexes |-> FALSE,
             operationtype |-> "triangle_list"]

\* a geometry block with one vertex buffer of n positions and no vertexcount
Verts(n) ==
    [vertexcount |-> Absent, bufs |-> <<[positions |-> TRUE, n |-> n, dims |-> <<>>]>>]

Tri(a, b, c) == <<Lit(a), Lit(b), Lit(c)>>

XmlMesh(shared, submeshes, skel) ==
    [root |-> "mesh", sharedgeometry |-> shared, submeshes |-> submeshes,
     skeletonlink |-> skel]

\* documents told apart by their root element
XmlRootDocs ==
    [root : {"scene"}, bad : BOOLEAN]
      \cup [root : {"skeleton"}, bones : BOOLEAN, bonehierarchy : BOOLEAN,
             bonelist : {<<>>}, links : {<<>>}, animations : {<<>>}]
      \cup [root : {"foo", "Mesh", "submesh"}]

\* meshes told apart by their blocks: shared geometry, <submeshes>, the
\* submeshes in it, <skeletonlink>
SubKinds ==
    {PlainSub,
     [PlainSub EXCEPT !.geometry = <<Verts(3)>>, !.faces = <<<<[face |-> Tri(0, 1, 2), n |-> 1]>>>>],
     [PlainSub EXCEPT !.usesharedvertices = TRUE, !.faces = <<<<[face |-> Tri(0, 1, 1), n |-> 1]>>>>],
     [PlainSub EXCEPT !.geometry = <<Verts(2)>>, !.operationtype = "line_list"]}

XmlStructDoc(d) ==
    \E sh \in {<<>>, <<Verts(2)>>, <<[Verts(2) EXCEPT !.vertexcount = Lit(3)]>>} :
    \E sk \in BOOLEAN :
        \/ d = XmlMesh(sh, <<>>, sk)
        \/ \E n \in 0 .. MaxSubmeshes : \E s \in [1 .. n -> SubKinds] :
              d = XmlMesh(sh, <<s>>, sk)

\* meshes of one submesh whose geometry block varies
VertexCounts == {Absent, Junk} \cup {Lit(n) : n \in -1 .. MaxBuffers * MaxVerts}

Buffers == [positions : BOOLEAN, n : 0 .. MaxVerts, dims : {<<>>}]

XmlGeomDoc(d) ==
    \E vc \in VertexCounts : \E n \in 0 .. MaxBuffers : \E b \in [1 .. n -> Buffers] :
        d = XmlMesh(<<>>,
                    <<<<[PlainSub EXCEPT !.geometry = <<[vertexcount |-> vc, bufs |-> b]>>]>>>>,
                    FALSE)

\* meshes of one submesh whose one vertex buffer declares texture-coordinate
\* sets: their number and the dimension of each
DimTexts == {"", "float1", "float2", "float3", "float4"}

XmlUvDoc(d) ==
    \E n \in 1 .. MaxVerts : \E c \in 0 .. MaxTexSets : \E t \in [1 .. c -> DimTexts] :
        d = XmlMesh(<<>>,
                    <<<<[PlainSub EXCEPT !.geometry =
                            <<[vertexcount |-> Absent,
                               bufs |-> <<[positions |-> TRUE, n |-> n, dims |-> t]>>]>>]>>>>,
                    FALSE)

\* meshes of one submesh whose faces vary: the face 0 1 2, or that face with
\* one index replaced by -1, by the vertex count, by 2^16 or by text
FaceKinds(nverts) ==
    {Tri(0, 1, 2)} \cup
    {[Tri(0, 1, 2) EXCEPT ![p] = x] :
        p \in 1 .. 3, x \in {Lit(-1), Lit(nverts), Lit(Uint16Max + 1), Junk}}

FaceRuns(nverts) == [face : FaceKinds(nverts), n : {1, BigRun}]

XmlFaceDoc(d) ==
    \E nv \in {3, Uint16Max + 1, Uint16Max + 2} : \E u \in BOOLEAN :
    \E n \in 0 .. MaxFaceRuns : \E f \in [1 .. n -> FaceRuns(nv)] :
        d = XmlMesh(<<>>,
                    <<<<[PlainSub EXCEPT !.geometry = <<Verts(nv)>>, !.faces = <<f>>,
                                         !.use32bitindexes = u]>>>>,
                    FALSE)

\* meshes of one submesh of two vertices whose bone assignments vary;
\* assignment k names bone k
AssignKinds ==
    {[vertexindex |-> Lit(0), weight |-> Lit(0)],
     [vertexindex |-> Lit(0), weight |-> Lit(50)],
     [vertexindex |-> Lit(0), weight |-> Junk],
     [vertexindex |-> Lit(1), weight |-> Lit(50)],
     [vertexindex |-> Lit(2), weight |-> Lit(50)],
     [vertexindex |-> Lit(-1), weight |-> Lit(50)]}

Assignments(s) ==
    [k \in 1 .. Len(s) |-> [vertexindex |-> s[k].vertexindex, boneindex |-> Lit(k),
                            weight |-> s[k].weight]]

XmlBoneDoc(d) ==
    \E n \in 0 .. MaxAssign : \E s \in [1 .. n -> AssignKinds] :
        d = XmlMesh(<<>>,
                    <<<<[PlainSub EXCEPT !.geometry = <<Verts(2)>>,
                                         !.boneassignments = <<Assignments(s)>>]>>>>,
                    FALSE)

\* skeletons whose bones and links vary: bones that share a name or an id,
\* links that name a bone twice, a bone as its own parent, a missing bone
BoneKinds ==
    [name : {"A", "B"}, id : {Lit(0), Lit(1)}, rotation : {<<>>}]
      \cup {[name |-> "C", id |-> Lit(2), rotation |-> <<>>]}

LinkKinds == [bone : {"A", "B", "C"}, parent : {"A", "B"}]

XmlSkelDoc(d) ==
    \E n \in 0 .. MaxBones : \E b \in [1 .. n -> BoneKinds] :
    \E m \in 0 .. MaxLinks : \E l \in [1 .. m -> LinkKinds] :
        d = [root |-> "skeleton", bones |-> TRUE, bonehierarchy |-> TRUE,
             bonelist |-> b, links |-> l, animations |-> <<>>]

\* A <rotation> element: its attributes and its <angle> and <axis> children.
\* It carries, for each of the three encodings, nothing, the encoding, or a
\* part of it.
QuatParts ==
    {[qx |-> Absent, qy |-> Absent, qz |-> Absent, qw |-> Absent],
     [qx |-> Lit(0), qy |-> Lit(0), qz |-> Lit(0), qw |-> Lit(1)],
     [qx |-> Lit(0), qy |-> Junk, qz |-> Lit(0), qw |-> Lit(1)],
     [qx |-> Lit(1), qy |-> Absent, qz |-> Absent, qw |-> Absent],
     [qx |-> Absent, qy |-> Lit(0), qz |-> Lit(0), qw |-> Lit(1)]}

AxisParts ==
    {[angle |-> Absent, axisX |-> Absent, axisY |-> Absent, axisZ |-> Absent,
      angleElem |-> <<>>, axisElem |-> <<>>],
     [angle |-> Lit(1), axisX |-> Lit(1), axisY |-> Lit(0), axisZ |-> Lit(0),
      angleElem |-> <<>>, axisElem |-> <<>>],
     [angle |-> Junk, axisX |-> Lit(1), axisY |-> Lit(0), axisZ |-> Lit(0),
      angleElem |-> <<>>, axisElem |-> <<>>],
     [angle |-> Lit(1), axisX |-> Lit(0), axisY |-> Lit(0), axisZ |-> Lit(0),
      angleElem |-> <<>>, axisElem |-> <<>>],
     [angle |-> Lit(1), axisX |-> Absent, axisY |-> Absent, axisZ |-> Absent,
      angleElem |-> <<>>, axisElem |-> <<>>],
     [angle |-> Absent, axisX |-> Absent, axisY |-> Absent, axisZ |-> Absent,
      angleElem |-> <<[value |-> Lit(1)]>>,
      axisElem |-> <<[x |-> Lit(1), y |-> Lit(0), z |-> Lit(0)]>>],
     [angle |-> Absent, axisX |-> Absent, axisY |-> Absent, axisZ |-> Absent,
      angleElem |-> <<[value |-> Lit(1)]>>, axisElem |-> <<>>],
     [angle |-> Absent, axisX |-> Lit(1), axisY |-> Lit(0), axisZ |-> Lit(0),
      angleElem |-> <<>>, axisElem |-> <<>>]}

EulerParts ==
    {[angleX |-> Absent, angleY |-> Absent, angleZ |-> Absent],
     [angleX |-> Lit(90), angleY |-> Absent, angleZ |-> Absent],
     [angleX |-> Absent, angleY |-> Lit(90), angleZ |-> Absent],
     [angleX |-> Lit(90), angleY |-> Lit(0), angleZ |-> Lit(0)],
     [angleX |-> Junk, angleY |-> Lit(0), angleZ |-> Lit(0)]}

Rotation(q, a, e) ==
    [qx |-> q.qx, qy |-> q.qy, qz |-> q.qz, qw |-> q.qw,
     angle |-> a.angle, axisX |-> a.axisX, axisY |-> a.axisY, axisZ |-> a.axisZ,
     angleElem |-> a.angleElem, axisElem |-> a.axisElem,
     angleX |-> e.angleX, angleY |-> e.angleY, angleZ |-> e.angleZ]

\* skeletons of one bone whose <rotation> varies
XmlRotDoc(d) ==
    \/ d = [root |-> "skeleton", bones |-> TRUE, bonehierarchy |-> TRUE,
            bonelist |-> <<[name |-> "A", id |-> Lit(0), rotation |-> <<>>]>>,
            links |-> <<>>, animations |-> <<>>]
    \/ \E q \in QuatParts : \E a \in AxisParts : \E e \in EulerParts :
          d = [root |-> "skeleton", bones |-> TRUE, bonehierarchy |-> TRUE,
               bonelist |-> <<[name |-> "A", id |-> Lit(0),
                               rotation |-> <<Rotation(q, a, e)>>]>>,
               links |-> <<>>, animations |-> <<>>]

\* the <animation> elements: a length that is missing, no number, infinite,
\* zero, negative or positive; with or without <tracks>
AnimKinds ==
    [name : {"walk"},
     length : {Absent, Junk, Infinite, Lit(0), Lit(0 - 1), Lit(2)},
     tracks : BOOLEAN]

\* skeletons of one bone whose <animations> vary
XmlAnimDoc(d) ==
    \E n \in 0 .. MaxClips : \E a \in [1 .. n -> AnimKinds] :
        d = [root |-> "skeleton", bones |-> TRUE, bonehierarchy |-> TRUE,
             bonelist |-> <<[name |-> "A", id |-> Lit(0), rotation |-> <<>>]>>,
             links |-> <<>>, animations |-> a]

\* #url of the instance: '' when parse is called on a fresh loader (line
\* 79), the url of load() otherwise (line 146)
XmlInit ==
    /\ \/ xdoc \in XmlRootDocs /\ xurl \in {"", "a.xml"}
       \/ xurl = "a.mesh.xml"
          /\ \/ XmlStructDoc(xdoc)
             \/ XmlGeomDoc(xdoc)
             \/ XmlFaceDoc(xdoc)
             \/ XmlBoneDoc(xdoc)
             \/ XmlUvDoc(xdoc)
       \/ xurl = "a.skeleton.xml" /\ XmlSkelDoc(xdoc)
       \/ xurl = "b.skeleton.xml" /\ XmlRotDoc(xdoc)
       \/ xurl = "c.skeleton.xml" /\ XmlAnimDoc(xdoc)
    /\ xres = NoRes

\* parse(xml) is called with the document
XmlParse ==
    /\ ~xres.done
    /\ xres' = Parse(xdoc, xurl)
    /\ UNCHANGED <<xdoc, xurl, loadVars, matVars, subVars, pathVars>>

NextXml == XmlParse

InitXml == LoadInit /\ MatIdle /\ XmlInit /\ SubIdle /\ PathIdle

SpecXml == InitXml /\ [][NextXml]_vars

\* ------------------------------------------------------------------------
\* Part III - statements about parse
\* ------------------------------------------------------------------------
ParsedMesh == xres.done /\ xdoc.root = "mesh"

\* the submeshes of a mesh document
DocSubs == IF xdoc.submeshes = <<>> THEN <<>> ELSE xdoc.submeshes[1]

\* the vertices a document gives submesh k
DocVerts(k) ==
    IF DocSubs[k].usesharedvertices
    THEN IF xdoc.sharedgeometry = <<>> THEN 0
         ELSE SumBuffers(xdoc.sharedgeometry[1].bufs)
    ELSE IF DocSubs[k].geometry = <<>> THEN 0
         ELSE SumBuffers(DocSubs[k].geometry[1].bufs)

\* the runs of faces a document gives submesh k
DocFaces(k) == IF DocSubs[k].faces = <<>> THEN <<>> ELSE DocSubs[k].faces[1]

\* an unsigned integer of a typed array is below n
UintLess(u, n) ==
    \/ u.hi < n \div (Uint16Max + 1)
    \/ u.hi = n \div (Uint16Max + 1) /\ u.lo < n % (Uint16Max + 1)

\* an unsigned integer of a typed array is the number n
UintIs(u, n) ==
    n >= 0 /\ u.hi = n \div (Uint16Max + 1) /\ u.lo = n % (Uint16Max + 1)

\* C5: parse returns a result in which exactly the key of the root's kind is
\* populated (scene, mesh or skeleton); for every other root name it raises
\* E_XML naming the tag and the source URL and returns no result.
C5_ParseDispatch ==
    xres.done =>
        IF xdoc.root \in {"scene", "mesh", "skeleton"}
        THEN /\ xres.status = "ok" => xres.data = {xdoc.root}
             /\ xres.status = "error" => xres.data = {}
        ELSE /\ xres.status = "error"
             /\ xres.data = {}
             /\ xres.err.code = "E_XML"
             /\ xres.err.msg = "Unknown root node"
             /\ xres.err.info.tag = xdoc.root
             /\ xres.err.info.url = xurl

\* parse was called, after a load, with a document whose root is unknown
C5_Witness ==
    /\ xres.done
    /\ xdoc.root = "foo"
    /\ xurl = "a.xml"
    /\ xres.status = "error"

\* C6: parse of a <mesh> document with neither shared geometry nor any
\* submesh raises an error reporting that the mesh contains no geometry.
C6_EmptyMeshNoGeometry ==
    (ParsedMesh /\ xdoc.sharedgeometry = <<>> /\ DocSubs = <<>>) =>
        /\ xres.status = "error"
        /\ xres.err.msg = "Mesh contains no geometry"

\* C7: every index stored in a submesh's index list is below the vertex
\* count of that submesh, and a document with a face that references an index
\* >= the vertex count does not parse.
C7_IndicesInRange ==
    ParsedMesh =>
        /\ xres.status = "ok" =>
              \A k \in 1 .. Len(xres.obj.subs) :
                \A r \in 1 .. Len(xres.obj.subs[k].index) : \A j \in 1 .. 3 :
                    UintLess(xres.obj.subs[k].index[r].idx[j], xres.obj.subs[k].nverts)
        /\ (\E k \in 1 .. Len(DocSubs) : \E r \in 1 .. Len(DocFaces(k)) : \E j \in 1 .. 3 :
                /\ DocFaces(k)[r].face[j].k = "int"
                /\ DocFaces(k)[r].face[j].v >= DocVerts(k))
           => xres.status = "error"

\* the geometry block that parse reads first: the shared geometry, else the
\* geometry of the first submesh
FirstGeometry ==
    IF xdoc.sharedgeometry # <<>> THEN xdoc.sharedgeometry
    ELSE IF Len(DocSubs) >= 1 /\ ~DocSubs[1].usesharedvertices THEN DocSubs[1].geometry
    ELSE <<>>

\* C8: a geometry block whose declared vertexcount differs from the number
\* of vertices parsed from it makes the parse fail with E_FORMAT naming both
\* numbers.
C8_DeclaredEqualsParsed ==
    (ParsedMesh /\ FirstGeometry # <<>> /\ FirstGeometry[1].vertexcount.k = "int"
       /\ FirstGeometry[1].vertexcount.v # SumBuffers(FirstGeometry[1].bufs)) =>
        /\ xres.status = "error"
        /\ xres.err.code = "E_FORMAT"
        /\ xres.err.info.declared = FirstGeometry[1].vertexcount.v
        /\ xres.err.info.parsed = SumBuffers(FirstGeometry[1].bufs)

\* the bone assignments of a document of one submesh were read: the parse
\* succeeded or failed at one of them
ReadAssignments ==
    /\ ParsedMesh
    /\ Len(DocSubs) = 1
    /\ DocSubs[1].boneassignments # <<>>
    /\ \/ xres.status = "ok"
       \/ xres.err.msg \in {"vertexindex out of range",
                            "More than 4 bone influences for vertex"}

DocAssigns == DocSubs[1].boneassignments[1]

\* assignment k was read, and it names an existing vertex
ReadExisting(k) ==
    /\ xres.status = "ok" \/ xres.err.info.at >= k
    /\ DocAssigns[k].vertexindex.k = "int"
    /\ DocAssigns[k].vertexindex.v \in 0 .. DocVerts(1) - 1

\* the parse failed at assignment k with E_FORMAT naming its vertex
FailsAt(k) ==
    /\ xres.status = "error"
    /\ xres.err.code = "E_FORMAT"
    /\ xres.err.info.at = k
    /\ xres.err.info.vertex = Num(DocAssigns[k].vertexindex.v)

\* the assignments before k to the vertex of assignment k
Before(k) == {j \in 1 .. k - 1 : DocAssigns[j].vertexindex = DocAssigns[k].vertexindex}

\* a weight that is written as zero or not written
ZeroWeight(a) == a.k = "absent" \/ (a.k = "int" /\ a.v = 0)

NonZeroBefore(k) == {j \in Before(k) : ~ZeroWeight(DocAssigns[j].weight)}

\* C9, as the spec states it: a 5th bone assignment to the same vertex makes
\* the parse fail with E_FORMAT identifying the vertex.
C9_FifthAssignmentFails ==
    ReadAssignments =>
        \A k \in 1 .. Len(DocAssigns) :
            (ReadExisting(k) /\ Cardinality(Before(k)) >= SlotsPerVertex) => FailsAt(k)

\* C9, amended: at most 4 skin slots of a vertex are ever filled, and an
\* assignment to an existing vertex makes the parse fail with E_FORMAT
\* identifying the vertex exactly when 4 earlier assignments to that vertex
\* carry a non-zero weight (an assignment of weight 0 takes no slot).
C9_AtMostFourSlots ==
    ReadAssignments =>
        /\ xres.status = "ok" =>
              \A v \in DOMAIN xres.obj.subs[1].skin :
                  Cardinality({s \in DOMAIN xres.obj.subs[1].skin[v] :
                                 ~IsZero(xres.obj.subs[1].skin[v][s].w)}) <= SlotsPerVertex
        /\ \A k \in 1 .. Len(DocAssigns) :
              ReadExisting(k) =>
                  (FailsAt(k) <=> Cardinality(NonZeroBefore(k)) >= SlotsPerVertex)

\* the parse failed at an assignment to a vertex whose 4 slots were taken
C9_Witness ==
    /\ ReadAssignments
    /\ \E k \in 1 .. Len(DocAssigns) :
          ReadExisting(k) /\ FailsAt(k) /\ Cardinality(NonZeroBefore(k)) >= SlotsPerVertex

\* the assignments of the document to vertex v, and the n-th of them (from
\* 0) in the order of the document
AssignsTo(v) == {k \in 1 .. Len(DocAssigns) : DocAssigns[k].vertexindex = Lit(v)}

NthTo(v, n) ==
    CHOOSE k \in AssignsTo(v) : Cardinality({j \in AssignsTo(v) : j < k}) = n

\* the weight of every assignment to vertex v is written as a number
NumericWeights(v) == \A k \in AssignsTo(v) : DocAssigns[k].weight.k = "int"

\* ... and as a number that is not 0
NonZeroWeights(v) ==
    \A k \in AssignsTo(v) : DocAssigns[k].weight.k = "int" /\ DocAssigns[k].weight.v # 0

\* the slots of vertex v hold the authored (bone, weight) pairs of its
\* assignments in slots 0 .. k - 1, in the order of the document, with the
\* weights as authored, and (0, 0) in the other slots
PackedInOrder(v) ==
    \A s \in 0 .. SlotsPerVertex - 1 :
        xres.obj.subs[1].skin[v][s] =
            IF s < Cardinality(AssignsTo(v))
            THEN [b |-> Num(DocAssigns[NthTo(v, s)].boneindex.v),
                  w |-> Num(DocAssigns[NthTo(v, s)].weight.v)]
            ELSE [b |-> Num(0), w |-> Num(0)]

\* C25 as stated: skin packing stores each assignment in the lowest slot of
\* its vertex whose weight is 0, with the weight as authored; the slots of
\* a vertex without assignments stay (0, 0), and for a vertex with k <= 4
\* assignments the k authored pairs occupy slots 0 .. k - 1 in authored
\* order.
C25_PairsInAuthoredOrder ==
    (ReadAssignments /\ xres.status = "ok") =>
        \A v \in 0 .. DocVerts(1) - 1 :
            (Cardinality(AssignsTo(v)) <= SlotsPerVertex /\ NumericWeights(v))
                => PackedInOrder(v)

\* C25, amended: the same for a vertex all of whose assignments carry a
\* non-zero weight; an assignment of weight 0 leaves its slot free, and the
\* next assignment to the vertex overwrites it.
C25_NonZeroPairsInAuthoredOrder ==
    (ReadAssignments /\ xres.status = "ok") =>
        \A v \in 0 .. DocVerts(1) - 1 :
            (Cardinality(AssignsTo(v)) <= SlotsPerVertex /\ NonZeroWeights(v))
                => PackedInOrder(v)

\* a parse that packed two assignments of non-zero weight to vertex 0 and
\* one to vertex 1
C25_Witness ==
    /\ ReadAssignments
    /\ xres.status = "ok"
    /\ Cardinality(AssignsTo(0)) = 2
    /\ Cardinality(AssignsTo(1)) = 1
    /\ NonZeroWeights(0)
    /\ NonZeroWeights(1)
    /\ PackedInOrder(0)
    /\ PackedInOrder(1)
    /\ ~IsZero(xres.obj.subs[1].skin[0][1].w)
    /\ ~IsZero(xres.obj.subs[1].skin[1][0].w)

\* C30: for every parsed submesh that carries texture coordinates the uv
\* attribute (of item size 2, line 804) has exactly one entry per vertex,
\* for every declared number of texture-coordinate sets and every declared
\* dimension 1, 2 or 3.
C30_OneUvPerVertex ==
    (ParsedMesh /\ xres.status = "ok") =>
        \A k \in 1 .. Len(xres.obj.subs) :
            xres.obj.subs[k].uv > 0 => xres.obj.subs[k].uv = 2 * xres.obj.subs[k].nverts

\* C10: the index buffer of a submesh is 32-bit whenever use32bitindexes is
\* set or the vertex count exceeds 65535, and every stored index equals the
\* authored index of an existing vertex.
C10_WideIndexWhenNeeded ==
    (ParsedMesh /\ xres.status = "ok") =>
        \A k \in 1 .. Len(xres.obj.subs) :
            xres.obj.subs[k].width # 0 =>
                /\ (DocSubs[k].use32bitindexes \/ DocVerts(k) > Uint16Max)
                      => xres.obj.subs[k].width = 32
                /\ \A r \in 1 .. Len(DocFaces(k)) : \A j \in 1 .. 3 :
                      (/\ DocFaces(k)[r].face[j].k = "int"
                       /\ DocFaces(k)[r].face[j].v \in 0 .. DocVerts(k) - 1)
                      => UintIs(xres.obj.subs[k].index[r].idx[j], DocFaces(k)[r].face[j].v)

\* ------------------------------------------------------------------------
\* Part III - statements about skeletons
\* ------------------------------------------------------------------------
ParsedSkeleton ==
    /\ xres.done
    /\ xdoc.root = "skeleton"
    /\ xdoc.bones
    /\ xdoc.bonehierarchy
    /\ \A k \in 1 .. Len(xdoc.bonelist) : xdoc.bonelist[k].rotation = <<>>

\* a parsed skeleton without <animation> elements
ParsedBones == ParsedSkeleton /\ xdoc.animations = <<>>

\* the declarations of a skeleton document that carry a name
Declared(name) == {k \in 1 .. Len(xdoc.bonelist) : xdoc.bonelist[k].name = name}

\* the links of a skeleton document that name a bone as the child
LinksOf(name) == {l \in 1 .. Len(xdoc.links) : xdoc.links[l].bone = name}

DistinctNames ==
    \A j, k \in 1 .. Len(xdoc.bonelist) :
        xdoc.bonelist[j].name = xdoc.bonelist[k].name => j = k

\* the bone array holds every declared bone once, in the order of the ids,
\* and a bone has the parent its one link names, none when no link names it
BonesById ==
    LET out == xres.obj.bones
    IN  /\ xres.status = "ok"
        /\ Len(out) = Len(xdoc.bonelist)
        /\ \A k \in 1 .. Len(xdoc.bonelist) :
              \E j \in 1 .. Len(out) :
                 /\ out[j].node = k
                 /\ out[j].name = xdoc.bonelist[k].name
                 /\ out[j].index = Num(xdoc.bonelist[k].id.v)
                 /\ LinksOf(out[j].name) = {} => out[j].parent = 0
                 /\ \A l \in LinksOf(out[j].name) :
                       (/\ LinksOf(out[j].name) = {l}
                        /\ xdoc.links[l].parent # out[j].name
                        /\ Declared(xdoc.links[l].parent) # {})
                       => out[j].parent \in Declared(xdoc.links[l].parent)
        /\ \A i, j \in 1 .. Len(out) : i < j => out[i].index.v <= out[j].index.v

\* C11 as stated: the bone array of a parsed skeleton holds every declared
\* bone exactly once, ordered by ascending declared id whatever the order of
\* the declarations, and the parent links are those of the document.
C11_EveryBoneOnceById == ParsedBones => BonesById

\* C11, amended: the same for a skeleton whose bones have pairwise distinct
\* names; the bones are keyed by name, so of several bones that share a name
\* only the last one is kept.
C11_DistinctNamesOnceById == (ParsedBones /\ DistinctNames) => BonesById

\* the skeleton (id 2, C), (id 0, A), (id 1, B) with the links C -> A and
\* B -> A gave [A, B, C] with A the parent of B and of C
C11_Witness ==
    /\ ParsedBones
    /\ [k \in 1 .. Len(xdoc.bonelist) |-> <<xdoc.bonelist[k].id, xdoc.bonelist[k].name>>]
          = <<<<Lit(2), "C">>, <<Lit(0), "A">>, <<Lit(1), "B">>>>
    /\ xdoc.links = <<[bone |-> "C", parent |-> "A"], [bone |-> "B", parent |-> "A"]>>
    /\ xres.status = "ok"
    /\ [j \in 1 .. 3 |-> xres.obj.bones[j].name] = <<"A", "B", "C">>
    /\ xres.obj.bones[1].parent = 0
    /\ xres.obj.bones[2].parent = 2
    /\ xres.obj.bones[3].parent = 2

\* C23: in the bone array of a parsed skeleton every bone sits at the
\* position equal to its declared id (the first position is id 0): ids that
\* are not unique or not dense never yield an array in which the position
\* of a bone differs from its id.
C23_BonePositionIsId ==
    (ParsedBones /\ xres.status = "ok") =>
        \A j \in 1 .. Len(xres.obj.bones) : xres.obj.bones[j].index = Num(j - 1)

\* the length of an <animation> as written is a finite positive number
PositiveLength(a) == a.length.k = "int" /\ a.length.v > 0

\* every <animation> of the document has a <tracks> block
AllTracks == \A k \in 1 .. Len(xdoc.animations) : xdoc.animations[k].tracks

\* C24: an animation clip is accepted only if its declared length is a
\* finite positive number: a parsed skeleton that was returned has only such
\* clips, and a clip with any other length (zero, negative, missing, no
\* number, infinite) makes the parse fail with E_FORMAT.
C24_ClipLengthFinitePositive ==
    (ParsedSkeleton /\ AllTracks) =>
        IF \A k \in 1 .. Len(xdoc.animations) : PositiveLength(xdoc.animations[k])
        THEN xres.status = "ok"
        ELSE xres.status = "error" /\ xres.err.code = "E_FORMAT"

\* the <rotation> of the bone of a one-bone skeleton that was parsed
RotationParsed(rot) ==
    /\ xres.done
    /\ xdoc.root = "skeleton"
    /\ xdoc.bones
    /\ xdoc.bonehierarchy
    /\ Len(xdoc.bonelist) = 1
    /\ xdoc.bonelist[1].rotation = rot
    /\ xdoc.animations = <<>>

\* the rotation of that bone was decoded from this encoding, or the
\* encoding was refused as malformed
DecodedFrom(enc) ==
    \/ xres.status = "ok" /\ xres.obj.bones[1].quaternion.enc = enc
    \/ xres.status = "error" /\ xres.err.code = "E_FORMAT"

\* the four components of an explicit quaternion are present
QuaternionGiven(r) ==
    r.qx.k # "absent" /\ r.qy.k # "absent" /\ r.qz.k # "absent" /\ r.qw.k # "absent"

\* no component of a quaternion is present
NoQuaternion(r) ==
    r.qx.k = "absent" /\ r.qy.k = "absent" /\ r.qz.k = "absent" /\ r.qw.k = "absent"

\* an angle and an axis are present, as attributes or as children
AxisAngleGiven(r) ==
    /\ r.angle.k # "absent" \/ r.angleElem # <<>>
    /\ r.axisX.k # "absent" \/ r.axisElem # <<>>

\* neither an angle nor an axis is present
NoAxisAngle(r) ==
    /\ r.angle.k = "absent" /\ r.angleElem = <<>>
    /\ r.axisX.k = "absent" /\ r.axisY.k = "absent" /\ r.axisZ.k = "absent"
    /\ r.axisElem = <<>>

EulerGiven(r) ==
    r.angleX.k # "absent" \/ r.angleY.k # "absent" \/ r.angleZ.k # "absent"

\* C16: a rotation is decoded from one encoding chosen by priority: the
\* explicit quaternion if present, else axis and angle (attributes or
\* children), else the Euler angles in degrees composed in the order X, Y,
\* Z; without a rotation element, or with one that carries none of the
\* three, the result is the identity and no error is raised.
C16_RotationPriority ==
    /\ RotationParsed(<<>>) =>
          xres.status = "ok" /\ xres.obj.bones[1].quaternion = Identity
    /\ \A q \in QuatParts : \A a \in AxisParts : \A e \in EulerParts :
          LET r == Rotation(q, a, e)
          IN  RotationParsed(<<r>>) =>
                /\ QuaternionGiven(r) => DecodedFrom("quaternion")
                /\ (NoQuaternion(r) /\ AxisAngleGiven(r)) => DecodedFrom("axisAngle")
                /\ (NoQuaternion(r) /\ NoAxisAngle(r) /\ EulerGiven(r)) =>
                      /\ xres.status = "ok"
                      /\ xres.obj.bones[1].quaternion.enc = "euler"
                      /\ xres.obj.bones[1].quaternion.order = "XYZ"
                      /\ xres.obj.bones[1].quaternion.unit = "deg"
                /\ (NoQuaternion(r) /\ NoAxisAngle(r) /\ ~EulerGiven(r)) =>
                      /\ xres.status = "ok"
                      /\ xres.obj.bones[1].quaternion = Identity

\* a rotation that carries all three encodings was decoded from its
\* quaternion
C16_Witness ==
    \E r \in {Rotation(q, a, e) : q \in QuatParts, a \in AxisParts, e \in EulerParts} :
        /\ RotationParsed(<<r>>)
        /\ QuaternionGiven(r) /\ AxisAngleGiven(r) /\ EulerGiven(r)
        /\ xres.status = "ok"
        /\ xres.obj.bones[1].quaternion.enc = "quaternion"
        /\ xres.obj.bones[1].quaternion.args = <<Num(0), Num(0), Num(0), Num(1)>>

\* ------------------------------------------------------------------------
\* Part IV - the material callback of #parseSubEntities (lines 1079-1110)
\* ------------------------------------------------------------------------
\* <subentity> elements of a <subentities> block
MaxSubs == 2
\* materials of a material file
MaxMats == 2

\* A JavaScript array: its length and its own properties. An index is kept
\* as the number it was given as, so that a negative index and NaN are
\* properties that do not count for the length.
NewArray(n, fill) ==
    [length |-> n, el |-> [k \in {Num(j) : j \in 0 .. n - 1} |-> fill]]

\* a[idx] = x
ArraySet(a, idx, x) ==
    [length |-> IF ~idx.nan /\ idx.v >= a.length THEN idx.v + 1 ELSE a.length,
     el     |-> [k \in DOMAIN a.el \cup {idx} |-> IF k = idx THEN x ELSE a.el[k]]]

\* mats.find(m => m.name === name) (line 1093): the position of the first
\* material of that name, 0 when there is none
FindMat(ms, name) ==
    IF \E j \in 1 .. Len(ms) : ms[j].name = name
    THEN CHOOSE j \in 1 .. Len(ms) :
            ms[j].name = name /\ \A i \in 1 .. j - 1 : ms[i].name # name
    ELSE 0

\* the body of subList.forEach (lines 1088-1106): mat.map.flipY throws a
\* TypeError for a material without a texture
BindSub(a, sub, ms) ==
    LET idx == AttrInt(sub.index, 0)
        j   == FindMat(ms, sub.materialName)
    IN  IF j = 0 THEN [ok |-> TRUE, a |-> ArraySet(a, idx, "fallback")]
        ELSE IF ~ms[j].map THEN [ok |-> FALSE, a |-> a]
        ELSE [ok |-> TRUE, a |-> ArraySet(a, idx, ms[j].name)]

RECURSIVE BindFrom(_, _, _, _)
BindFrom(subs, k, a, ms) ==
    IF k > Len(subs) THEN [ok |-> TRUE, a |-> a]
    ELSE LET r == BindSub(a, subs[k], ms)
         IN  IF r.ok THEN BindFrom(subs, k + 1, r.a, ms) ELSE r

\* the onLoad callback given to matLoader.load (lines 1079-1110): the array
\* of subList.length grey materials, then one assignment per <subentity>;
\* what it throws is caught by DotMaterialLoader.load (lines 1683-1687) and
\* reported by #internalManager.itemError (line 1112)
BindSubEntities(subs, ms) ==
    LET r == BindFrom(subs, 1, NewArray(Len(subs), "grey"), ms)
    IN  IF r.ok THEN [done |-> TRUE, status |-> "ok", materials |-> r.a]
        ELSE [done |-> TRUE, status |-> "TypeError",
              materials |-> NewArray(0, "grey")]

\* the <subentity> elements: any index, a material of the file or not
SubEntityKinds ==
    [index : {Absent, Junk} \cup {Lit(n) : n \in -1 .. MaxSubs + 1},
     materialName : {"m1", "m9"}]

MatKinds == [name : {"m1", "m2"}, map : BOOLEAN]

SubInit ==
    /\ \E n \in 0 .. MaxSubs : subNode \in [1 .. n -> SubEntityKinds]
    /\ \E n \in 0 .. MaxMats : matList \in [1 .. n -> MatKinds]
    /\ subRes = NoRes

\* the material file of the block arrives and parses
MaterialsLoaded ==
    /\ ~subRes.done
    /\ subRes' = BindSubEntities(subNode, matList)
    /\ UNCHANGED <<subNode, matList, loadVars, matVars, xmlVars, pathVars>>

NextSub == MaterialsLoaded

InitSub == LoadInit /\ MatIdle /\ XmlIdle /\ SubInit /\ PathIdle

SpecSub == InitSub /\ [][NextSub]_vars

\* the index of a <subentity> lies in [0, number of subentities)
IndexInRange(sub) ==
    /\ ~AttrInt(sub.index, 0).nan
    /\ AttrInt(sub.index, 0).v >= 0
    /\ AttrInt(sub.index, 0).v < Len(subNode)

\* C14: when the materials are bound, a <subentity> whose index lies outside
\* [0, number of subentities) is rejected and not bound, so that a material
\* array that is stored has one entry per declared subentity, at the
\* positions 0 .. n-1.
C14_SubEntityIndexValidated ==
    (subRes.done /\ subRes.status = "ok") =>
        /\ \A k \in 1 .. Len(subNode) : IndexInRange(subNode[k])
        /\ subRes.materials.length = Len(subNode)
        /\ DOMAIN subRes.materials.el = {Num(j) : j \in 0 .. Len(subNode) - 1}

\* ------------------------------------------------------------------------
\* Part V - the texturePath property of both loaders
\* ------------------------------------------------------------------------
Loaders == {"OgreMaxLoader", "DotMaterialLoader"}

\* the values a caller assigns: strings, and a number, undefined, null and a
\* boolean, each with the result of typeof
Strings == {"", "a/", "b/", "textures/"}

JsValues ==
    [type : {"string"}, s : Strings]
      \cup {[type |-> "number", s |-> "123"], [type |-> "undefined", s |-> ""],
            [type |-> "object", s |-> "null"], [type |-> "boolean", s |-> "true"]}

\* the error class of each loader (lines 1943-1955, 1961-1973)
ErrorOf(l) == IF l = "OgreMaxLoader" THEN "OgreMaxError" ELSE "DotMaterialError"

\* a setter that stores the value before it tests it
SetterStoresFirst(l, cur, value) ==
    IF value.type # "string"
    THEN [path |-> value.s, thrown |-> [name |-> ErrorOf(l), code |-> "E_RUNTIME"]]
    ELSE [path |-> value.s, thrown |-> NoThrow]

\* set texturePath(value) (lines 102-108, 1638-1644): throws for a value
\* that is no string, stores the value otherwise
Setter(l, cur, value) ==
    IF value.type # "string"
    THEN [path |-> cur, thrown |-> [name |-> ErrorOf(l), code |-> "E_RUNTIME"]]
    ELSE [path |-> value.s, thrown |-> NoThrow]

\* get texturePath() (lines 95, 1633-1635)
Getter(l) == texturePath[l]

SetPath(l) ==
    \E value \in JsValues :
        LET r == Setter(l, texturePath[l], value)
        IN  /\ texturePath' = [texturePath EXCEPT ![l] = r.path]
            /\ assigned' = [loader |-> l, value |-> value]
            /\ thrown' = r.thrown
            /\ UNCHANGED <<loadVars, matVars, xmlVars, subVars>>

\* loader.texturePath = value on an OgreMaxLoader
SetOgreTexturePath == SetPath("OgreMaxLoader")

\* loader.texturePath = value on a DotMaterialLoader
SetMaterialTexturePath == SetPath("DotMaterialLoader")

NextPath == SetOgreTexturePath \/ SetMaterialTexturePath

InitPath == LoadInit /\ MatIdle /\ XmlIdle /\ SubIdle /\ PathIdle

SpecPath == InitPath /\ [][NextPath]_vars

\* C15: assigning a value that is no string to texturePath, on either
\* loader, throws an error of category E_RUNTIME and leaves the stored path
\* as it was; assigning a string makes the getter return that string.
C15_TexturePathSetter ==
    [][ LET l == assigned'.loader
            v == assigned'.value
        IN  IF v.type = "string"
            THEN /\ thrown' = NoThrow
                 /\ texturePath'[l] = v.s
                 /\ \A o \in Loaders \ {l} : texturePath'[o] = texturePath[o]
            ELSE /\ thrown'.code = "E_RUNTIME"
                 /\ thrown'.name = ErrorOf(l)
                 /\ texturePath' = texturePath
      ]_vars

\* a DotMaterialLoader whose path is 'textures/' was assigned a number: the
\* assignment threw and the path is still 'textures/'
C15_Witness ==
    /\ assigned.loader = "DotMaterialLoader"
    /\ assigned.value.type = "number"
    /\ thrown.code = "E_RUNTIME"
    /\ Getter("DotMaterialLoader") = "textures/"

====
